---- MODULE Spec2Model ----
(***************************************************************************)
(* Website-to-codebase generator: the Structure Advisor call, artifact     *)
(* synthesis (generateCodebase), the signature/pattern pass with auto-fix  *)
(* (validateAndFixCodebase) and the import-resolution pass                 *)
(* (validateImportsEnhanced).                                              *)
(*                                                                         *)
(* Text representation.  A path is a sequence of atoms: directory and file *)
(* names joined by "/", the final extension split off as an atom that      *)
(* starts with "." ("src/utils/helpers.ts" is                              *)
(* <<"src","utils","helpers",".ts">>), "@" the alias atom of "@/...".      *)
(* A file text is a sequence of lines, each line one token: a literal, an  *)
(* import statement (clause + module path) or a ring-primary class with    *)
(* its chain of "/NN" opacity modifiers.  Substring tests on literals are  *)
(* given by explicit tables.                                               *)
(***************************************************************************)
EXTENDS Integers, Sequences, FiniteSets, TLC

\* ------------------------------------------------------------------ bounds
MaxSections == 2
MaxMods == 2
MaxLines == 3
MaxRingLines == 1
MaxAdded == 1
MaxAnchors == 12
MaxImgs == 52
MaxWords == 2
MaxCss == 2
MaxUrls == 2
MaxUrlTail == 2

\* ------------------------------------------------------------------ tokens
Lit(str) == [k |-> "lit", s |-> str, p |-> <<>>, b |-> FALSE, n |-> 0, m |-> <<>>]
Import(clause, path) == [k |-> "import", s |-> clause, p |-> path, b |-> FALSE, n |-> 0, m |-> <<>>]
Ring(focus, shade, mods) == [k |-> "ring", s |-> "", p |-> <<>>, b |-> focus, n |-> shade, m |-> mods]

File(path, content) == [path |-> path, content |-> content]

SeqMap(Op(_), s) == [i \in 1..Len(s) |-> Op(s[i])]

RECURSIVE Flatten(_)
Flatten(ss) == IF ss = <<>> THEN <<>> ELSE Head(ss) \o Flatten(Tail(ss))

Range(s) == {s[i] : i \in 1..Len(s)}

\* -------------------------------------------------- substring tables (text)
\* literals that contain the given pattern as a substring
LitsWith(pat) ==
  CASE pat = "buttonVariants({" ->
         {"buttonVariants({ variant, size })", "buttonVariants({variant,size})",
          "buttonVariants({ size, variant })"}
    [] pat = "cardVariants({" ->
         {"cardVariants({ variant })", "cardVariants({variant})"}
    [] pat = "inputVariants({" ->
         {"inputVariants({ size: inputSize })", "inputVariants({size: inputSize})",
          "inputVariants({ size })"}
    [] pat = "<Section" -> {"<Section1 />", "<Section2 />", "<Section3 />"}
    [] pat = "primary:" -> {"primary: {", "primary: '#3b82f6'"}
    [] pat = "export" -> {"export function", "export const", "export default function Home()"}
    [] pat = "NavLink" -> {"<NavLink to={item.href}>item.text</NavLink>",
                           "<NavLink to={ROUTES.HOME}>Home</NavLink>"}
    [] OTHER -> {pat}

\* import clauses of the form "{ ... }"
BraceClauses ==
  {"{ defineConfig }", "{ clsx, type ClassValue }", "{ twMerge }",
   "{ createContext, useContext, useState, useEffect, type ReactNode }",
   "{ authService }", "{ storage }", "{ STORAGE_KEYS }", "{ useContext }",
   "{ AuthContext }", "{ useState, useCallback }", "{ API_BASE_URL, API_TIMEOUT }",
   "{ logger }", "{ apiService }", "{ API_ENDPOINTS }",
   "{ forwardRef, type ButtonHTMLAttributes }", "{ forwardRef, type InputHTMLAttributes }",
   "{ cn }", "{ type ReactNode, useEffect, useCallback }", "{ Header }", "{ Footer }",
   "{ Layout }", "{ Link }", "{ Link, NavLink }", "{ ROUTES }", "{ Button }", "{ useAuth }",
   "{ Section1, }", "{ Section1, Section2, }", "{ Section1, Section2, Section3, }",
   "{ Section1, Section2, Section3, Section4, }", "{ Widget }"}

\* other clauses in which none of the characters f, r, o, m occurs
NoFromCharClauses == {"React", "ReactDOM", "App", "path", "type { Status }", "Widget"}

\* other clauses in which one of the characters f, r, o, m occurs
FromCharClauses ==
  {"react", "Home", "type { User, AuthState }", "type { User }",
   "axios, { type AxiosInstance, type AxiosRequestConfig }",
   "type { HTMLAttributes, ReactNode }", "type { ReactNode }", "Footer"}

\* identifiers an import clause contains
ClauseNames(clause) ==
  CASE clause = "{ Link, NavLink }" -> {"NavLink", "Link"}
    [] OTHER -> {}

\* line.includes(pat) for one line of a file text
LineHas(tok, pat) ==
  CASE tok.k = "lit" -> tok.s \in LitsWith(pat)
    [] tok.k = "import" -> pat \in ClauseNames(tok.s)
    [] tok.k = "ring" ->
         pat = "ring-primary-500/20" /\ tok.n = 500 /\ Len(tok.m) > 0 /\ tok.m[1] = 20
    [] OTHER -> FALSE

\* String.prototype.includes on a file text
Includes(content, pat) == \E i \in 1..Len(content) : LineHas(content[i], pat)

\* String.prototype.replace(string, string): the FIRST occurrence only
ReplaceFirst(content, pat, rep) ==
  IF \E i \in 1..Len(content) : content[i] = Lit(pat)
  THEN LET i == CHOOSE j \in 1..Len(content) :
                  /\ content[j] = Lit(pat)
                  /\ \A h \in 1..(j - 1) : content[h] # Lit(pat)
       IN [content EXCEPT ![i] = Lit(rep)]
  ELSE content

\* ------------------------------------------------------- substring (paths)
\* atoms whose text ends with the given name
AtomsEndingWith(name) ==
  CASE name = "Button" -> {"Button", "IconButton"}
    [] name = "Card" -> {"Card", "UserCard"}
    [] name = "Input" -> {"Input"}
    [] name = "Home" -> {"Home"}
    [] name = "Header" -> {"Header"}
    [] name = "context" -> {"context"}
    [] name = "hooks" -> {"hooks"}
    [] name = "components" -> {"components"}
    [] OTHER -> {name}

IsExt(atom) == atom \in {".ts", ".tsx", ".js", ".jsx", ".css", ".json", ".md", ".html"}

\* path.includes(name + ext), e.g. 'Button.tsx'
PathIncludesFile(path, name, ext) ==
  \E i \in 1..(Len(path) - 1) : path[i] \in AtomsEndingWith(name) /\ path[i + 1] = ext

\* path.includes(name + '/'), e.g. 'hooks/'
PathIncludesDir(path, name) ==
  \E i \in 1..(Len(path) - 1) : path[i] \in AtomsEndingWith(name) /\ ~IsExt(path[i + 1])

\* path.includes(name) for a name without separator, e.g. 'tailwind.config'
PathIncludesAtom(path, name) == \E i \in 1..Len(path) : path[i] = name

PathEndsWith(path, ext) == Len(path) > 0 /\ path[Len(path)] = ext

\* Array.prototype.find: the first element satisfying the test, <<>> when none
FindFirst(files, Test(_)) ==
  IF \E i \in 1..Len(files) : Test(files[i])
  THEN <<files[CHOOSE j \in 1..Len(files) :
                  Test(files[j]) /\ \A h \in 1..(j - 1) : ~Test(files[h])]>>
  ELSE <<>>

\* ------------------------------------------- signature/pattern pass (zod)
TypeError(file, line, error, severity, suggestion) ==
  [file |-> file, line |-> line, error |-> error, severity |-> severity,
   suggestion |-> suggestion]

HomePath == <<"src", "pages", "Home", ".tsx">>
HeaderPath == <<"src", "components", "layout", "Header", ".tsx">>
ButtonPath == <<"src", "components", "common", "Button", ".tsx">>
CardPath == <<"src", "components", "common", "Card", ".tsx">>
InputPath == <<"src", "components", "common", "Input", ".tsx">>

IsHomeFile(f) == PathIncludesFile(f.path, "Home", ".tsx")
IsHeaderFile(f) == PathIncludesFile(f.path, "Header", ".tsx")
IsButtonFile(f) == PathIncludesFile(f.path, "Button", ".tsx")
IsCardFile(f) == PathIncludesFile(f.path, "Card", ".tsx")
IsInputFile(f) == PathIncludesFile(f.path, "Input", ".tsx")

validateContentExtraction(generatedFiles) ==
  LET homeFile == FindFirst(generatedFiles, IsHomeFile)
      headerFile == FindFirst(generatedFiles, IsHeaderFile)
      hasSectionRenders == Includes(homeFile[1].content, "<Section")
      hasPlaceholder == /\ Includes(homeFile[1].content, "No items to display")
                        /\ ~hasSectionRenders
                        /\ ~Includes(homeFile[1].content, "<Section1")
  IN (IF homeFile # <<>> /\ hasPlaceholder
      THEN <<TypeError(HomePath, 0,
               "Website content may not have been properly extracted - consider providing fallback content",
               "warning",
               "Ensure the website is accessible and contains proper HTML structure (sections, headings, content)")>>
      ELSE <<>>)
     \o
     (IF headerFile # <<>> /\ ~Includes(headerFile[1].content, "NavLink")
      THEN <<TypeError(HeaderPath, 0,
               "No navigation items were extracted from the website",
               "warning",
               "Navigation content might not have been detected - using defaults")>>
      ELSE <<>>)

\* the errors validateTailwindClasses pushes for one file
TailwindErrorsOfFile(file) ==
  (IF Includes(file.content, "ring-primary-500/20")
   THEN LET hits == SelectSeq([i \in 1..Len(file.content) |-> i],
                              LAMBDA i : LineHas(file.content[i], "ring-primary-500/20"))
        IN [h \in 1..Len(hits) |->
              TypeError(file.path, hits[h],
                "Invalid Tailwind class: ring-primary-500/20 - opacity modifiers not supported on custom colors",
                "error",
                "Use ring-primary-500 without the /20 opacity modifier")]
   ELSE <<>>)
  \o
  (IF /\ PathIncludesAtom(file.path, "tailwind.config")
      /\ ~Includes(file.content, "primary: {")
      /\ Includes(file.content, "primary:")
   THEN <<TypeError(file.path, 0,
            "Tailwind config: primary color must be defined as an object with scale (50, 100, 200...900)",
            "error",
            "Define primary color with proper color scale: primary: { 50: \"#...\", 100: \"#...\", ... }")>>
   ELSE <<>>)

validateTailwindClasses(generatedFiles) ==
  Flatten([i \in 1..Len(generatedFiles) |-> TailwindErrorsOfFile(generatedFiles[i])])

\* one step of the ring-primary rewrite: drop the first "/NN" of the chain
DropMod(tok) == [tok EXCEPT !.m = Tail(tok.m)]

\* content.replace(/ring-primary-500\/20/g, 'ring-primary-500') on one line
FixRing500(tok) ==
  IF tok.k = "ring" /\ tok.n = 500 /\ Len(tok.m) > 0 /\ tok.m[1] = 20
  THEN DropMod(tok) ELSE tok

\* content.replace(/focus:ring-primary-\d+\/\d+/g, m => m.replace(/\/\d+$/, ''))
FixFocusRing(tok) ==
  IF tok.k = "ring" /\ tok.b /\ Len(tok.m) > 0
  THEN DropMod(tok) ELSE tok

FixRingLine(tok) == FixFocusRing(FixRing500(tok))

autoFixTailwindClasses(generatedFiles) ==
  [i \in 1..Len(generatedFiles) |->
     File(generatedFiles[i].path, SeqMap(FixRingLine, generatedFiles[i].content))]

ButtonSignature == "const buttonVariants = (variant: ButtonVariant, size: ButtonSize)"
CardSignature == "const cardVariants = (variant: CardVariant = "
InputSignature == "const inputVariants = (size: InputSize = "

\* the check validateComponentSignatures makes for one component
SignatureErrors(generatedFiles, IsFile(_), objCall, signature, posCall, errFile, errLine, msg, sugg) ==
  LET found == FindFirst(generatedFiles, IsFile)
  IN IF /\ found # <<>>
        /\ Includes(found[1].content, objCall)
        /\ Includes(found[1].content, signature)
        /\ ~Includes(found[1].content, posCall)
     THEN <<TypeError(errFile, errLine, msg, "error", sugg)>>
     ELSE <<>>

validateComponentSignatures(generatedFiles) ==
  SignatureErrors(generatedFiles, IsButtonFile, "buttonVariants({", ButtonSignature,
     "buttonVariants(variant, size)", ButtonPath, 39,
     "buttonVariants expects 2 positional arguments (variant, size) but is being called with an object",
     "Change buttonVariants({ variant, size }) to buttonVariants(variant, size)")
  \o
  SignatureErrors(generatedFiles, IsCardFile, "cardVariants({", CardSignature,
     "cardVariants(variant)", CardPath, 22,
     "cardVariants expects a CardVariant argument but is receiving an object { variant }",
     "Change cardVariants({ variant }) to cardVariants(variant)")
  \o
  SignatureErrors(generatedFiles, IsInputFile, "inputVariants({", InputSignature,
     "inputVariants(inputSize)", InputPath, 40,
     "inputVariants expects a size argument but is receiving an object { size: inputSize }",
     "Change inputVariants({ size: inputSize }) to inputVariants(inputSize)")

\* the error validateTypeScriptPatterns pushes for one file
TypeScriptErrorsOfFile(file) ==
  IF /\ PathEndsWith(file.path, ".tsx") \/ PathEndsWith(file.path, ".ts")
     /\ PathIncludesDir(file.path, "context") \/ PathIncludesDir(file.path, "hooks")
     /\ ~Includes(file.content, "export")
  THEN <<TypeError(file.path, 0, "Context or hook file missing export statement",
                   "error", "Add export keyword to main declaration")>>
  ELSE <<>>

validateTypeScriptPatterns(generatedFiles) ==
  Flatten([i \in 1..Len(generatedFiles) |-> TypeScriptErrorsOfFile(generatedFiles[i])])

validateComponentPropUsage(generatedFiles) == <<>>

\* e.error.includes('syntax'): no message of the catalogue contains it
ErrorIsSyntax(e) == FALSE

validateGeneratedCodebase(generatedFiles) ==
  LET allErrors == validateComponentSignatures(generatedFiles)
                   \o validateTypeScriptPatterns(generatedFiles)
                   \o validateComponentPropUsage(generatedFiles)
                   \o validateTailwindClasses(generatedFiles)
                   \o validateContentExtraction(generatedFiles)
      errs == SelectSeq(allErrors, LAMBDA e : e.severity = "error")
  IN [isValid |-> Len(errs) = 0,
      errors |-> errs,
      warnings |-> SelectSeq(allErrors, LAMBDA e : e.severity = "warning"),
      typeChecksPassed |-> Len(errs) = 0,
      syntaxErrors |-> SelectSeq(allErrors, ErrorIsSyntax)]

\* the three groups of literal rewrites of autoFixGeneratedCode on one file
FixButtonCalls(file, content) ==
  IF IsButtonFile(file)
  THEN ReplaceFirst(ReplaceFirst(content, "buttonVariants({ variant, size })",
                                 "buttonVariants(variant, size)"),
                    "buttonVariants({variant,size})", "buttonVariants(variant, size)")
  ELSE content

FixCardCalls(file, content) ==
  IF IsCardFile(file)
  THEN ReplaceFirst(ReplaceFirst(content, "cardVariants({ variant })", "cardVariants(variant)"),
                    "cardVariants({variant})", "cardVariants(variant)")
  ELSE content

FixInputCalls(file, content) ==
  IF IsInputFile(file)
  THEN ReplaceFirst(
         ReplaceFirst(
           ReplaceFirst(content, "inputVariants({ size: inputSize })", "inputVariants(inputSize)"),
           "inputVariants({size: inputSize})", "inputVariants(inputSize)"),
         "inputVariants({ size })", "inputVariants(size)")
  ELSE content

autoFixGeneratedCode(generatedFiles) ==
  LET fixed == autoFixTailwindClasses(generatedFiles)
  IN [i \in 1..Len(fixed) |->
        File(fixed[i].path,
             FixInputCalls(fixed[i], FixCardCalls(fixed[i], FixButtonCalls(fixed[i], fixed[i].content))))]

validateAndFixCodebase(generatedFiles) ==
  LET fixedFiles == autoFixGeneratedCode(generatedFiles)
  IN [files |-> fixedFiles, result |-> validateGeneratedCodebase(fixedFiles)]

\* ------------------------------------------------- import-resolution pass
ValidationError(file, error) == [file |-> file, error |-> error, severity |-> "error"]

\* `Cannot find module '${imp.path}' (imported as '${imp.name}')`
CannotFindModule(path, name) ==
  <<"Cannot find module '">> \o path \o <<"' (imported as '">> \o name \o <<"')">>

\* /import\s+(?:{[^}]*}|[^from]*?)\s+from\s+['"]([^'"]+)['"]/ on one statement:
\* the clause is a brace list, or a text without any of the characters f, r, o, m
ImportRegexMatches(tok) ==
  tok.k = "import" /\ (tok.s \in BraceClauses \/ tok.s \in NoFromCharClauses)

\* importPath.startsWith(".")
StartsWithDot(path) == Len(path) > 0 /\ path[1] \in {".", ".."}

\* importPath.startsWith("node_modules")
StartsWithNodeModules(path) == Len(path) > 0 /\ path[1] = "node_modules"

extractImports(content) ==
  LET hits == SelectSeq(content, LAMBDA tok :
                 /\ ImportRegexMatches(tok)
                 /\ ~StartsWithNodeModules(tok.p)
                 /\ ~StartsWithDot(tok.p))
  IN [i \in 1..Len(hits) |-> [path |-> hits[i].p, name |-> hits[i].p]]

\* the paths held by a file map (sequence of entries with distinct paths)
MapHas(fileMap, path) == \E i \in 1..Len(fileMap) : fileMap[i].path = path

fileExists(importPath, fileMap) ==
  LET filePath == IF Len(importPath) > 0 /\ importPath[1] = "@"
                  THEN <<"src">> \o Tail(importPath)
                  ELSE importPath
      possiblePaths == {filePath,
                        filePath \o <<".ts">>, filePath \o <<".tsx">>,
                        filePath \o <<".js">>, filePath \o <<".jsx">>,
                        filePath \o <<"index", ".ts">>, filePath \o <<"index", ".tsx">>,
                        filePath \o <<"index", ".js">>, filePath \o <<"index", ".jsx">>}
  IN \E possiblePath \in possiblePaths : MapHas(fileMap, possiblePath)

\* new Map filled by fileMap.set(file.path, file.content) in list order: an entry
\* keeps the position of the first file with its path and the text of the last
ToFileMap(generatedFiles) ==
  LET firsts == SelectSeq([i \in 1..Len(generatedFiles) |-> i],
                          LAMBDA i : \A h \in 1..(i - 1) :
                                        generatedFiles[h].path # generatedFiles[i].path)
      LastOf(path) == CHOOSE j \in 1..Len(generatedFiles) :
                         /\ generatedFiles[j].path = path
                         /\ \A h \in (j + 1)..Len(generatedFiles) :
                               generatedFiles[h].path # path
  IN [e \in 1..Len(firsts) |->
        File(generatedFiles[firsts[e]].path,
             generatedFiles[LastOf(generatedFiles[firsts[e]].path)].content)]

\* the errors validateImports pushes for one entry of the file map
ImportErrorsOfFile(entry, fileMap) ==
  LET imports == extractImports(entry.content)
      missing == SelectSeq(imports, LAMBDA imp : ~fileExists(imp.path, fileMap))
  IN [i \in 1..Len(missing) |->
        ValidationError(entry.path, CannotFindModule(missing[i].path, missing[i].name))]

validateImports(generatedFiles) ==
  LET fileMap == ToFileMap(generatedFiles)
      errors == Flatten([i \in 1..Len(fileMap) |-> ImportErrorsOfFile(fileMap[i], fileMap)])
  IN [isValid |-> Len(errors) = 0, errors |-> errors, warnings |-> <<>>]

SAFE_IMPORTS ==
  {"react", "react-dom", "react-router-dom", "next", "next/", "axios", "clsx", "cn",
   "tailwind-merge", "class-variance-authority", "@radix-ui", "zustand", "date-fns",
   "zod", "lodash", "uuid", "jszip", "geist"}

\* first atoms of a text that begin with the given package-name prefix
AtomsStartingWith(safe) ==
  CASE safe = "react" -> {"react", "react-dom", "react-router-dom"}
    [] safe = "react-dom" -> {"react-dom"}
    [] safe = "next" -> {"next"}
    [] safe = "next/" -> {}
    [] OTHER -> {safe}

\* str.startsWith(safe) on a text given as a sequence of atoms
StartsWith(str, safe) ==
  /\ Len(str) > 0
  /\ \/ str[1] \in AtomsStartingWith(safe)
     \/ safe = "next/" /\ str[1] = "next" /\ Len(str) > 1 /\ ~IsExt(str[2])

isSafeImport(importPath) == \E safe \in SAFE_IMPORTS : StartsWith(importPath, safe)

\* the text handed to isSafeImport for one error of the report
SafeFilterArgument(error) == error.error

validateImportsEnhanced(generatedFiles) ==
  LET result == validateImports(generatedFiles)
      errors == SelectSeq(result.errors, LAMBDA error : ~isSafeImport(SafeFilterArgument(error)))
  IN [isValid |-> Len(errors) = 0, errors |-> errors, warnings |-> result.warnings]

\* ------------------------------------------------------ Structure Advisor
\* a JavaScript value: null, another falsy value, or an object whose fields
\* are <<>> when absent and <<v>> when present
JsVal(t, pages, sections, components, insights, error, analysis) ==
  [t |-> t, pages |-> pages, sections |-> sections, components |-> components,
   insights |-> insights, error |-> error, analysis |-> analysis]

JsNull == JsVal("null", <<>>, <<>>, <<>>, <<>>, <<>>, <<>>)
JsUndefined == JsVal("undefined", <<>>, <<>>, <<>>, <<>>, <<>>, <<>>)

\* if (value) ...
Truthy(v) == v.t = "obj"

\* `section-${i}`
SectionId(i) == <<"section-", i>>

\* `Section${i}`
SectionName(i) ==
  CASE i = 1 -> "Section1" [] i = 2 -> "Section2" [] i = 3 -> "Section3"
    [] i = 4 -> "Section4" [] OTHER -> "SectionN"

\* `Section ${i}`
SectionTitle(i) ==
  CASE i = 1 -> "Section 1" [] i = 2 -> "Section 2" [] i = 3 -> "Section 3"
    [] i = 4 -> "Section 4" [] OTHER -> "Section N"

\* s.heading || fallback, on a text token
OrElse(tok, fallback) == IF tok = Lit("") THEN Lit(fallback) ELSE tok

getDefaultStructureSuggestions(parsedContent) ==
  LET sectionCount == Len(parsedContent.sections)
  IN JsVal("obj",
       <<  <<[name |-> "Home", description |-> "Main landing page",
              sections |-> [i \in 1..sectionCount |-> SectionId(i - 1)]]>>  >>,
       <<  [i \in 1..sectionCount |->
              [id |-> SectionId(i - 1), name |-> SectionName(i), type |-> "custom",
               description |-> OrElse(parsedContent.sections[i].heading, SectionTitle(i))]]  >>,
       <<  <<"Button", "Header", "Footer">>  >>,
       <<  [totalSections |-> sectionCount, reusableComponentCount |-> 5,
            suggestedPages |-> <<"Home">>, layoutStrategy |-> "single-page"]  >>,
       <<>>, <<>>)

\* a response text: json tells whether JSON.parse accepts it, value is what it yields
Text(json, raw, value) == [json |-> json, raw |-> raw, value |-> value]

\* JSON.stringify({ error: "No response from Gemini" })
NoResponseStub ==
  Text(TRUE, "{\"error\":\"No response from Gemini\"}",
       JsVal("obj", <<>>, <<>>, <<>>, <<>>, <<"No response from Gemini">>, <<>>))

parseGeminiResponse(response) ==
  IF response.json
  THEN response.value
  ELSE JsVal("obj", <<>>, <<>>, <<>>, <<>>, <<"Response was not valid JSON">>, <<response.raw>>)

\* the fetch of callGeminiAPI: not issued, pending, rejected, or resolved with a
\* status (ok), a body that response.json() accepts or not, and the candidate
\* text of the body (<<>> when the body has none)
Fetch(state, ok, bodyIsJson, text) ==
  [state |-> state, ok |-> ok, bodyIsJson |-> bodyIsJson, text |-> text]
NoFetch == Fetch("none", FALSE, FALSE, <<>>)
Pending == Fetch("pending", FALSE, FALSE, <<>>)

\* what callGeminiAPI yields once its fetch has settled: a thrown error or a text
callGeminiAPI(fetch) ==
  IF fetch.state = "rejected" \/ ~fetch.ok \/ ~fetch.bodyIsJson
  THEN [threw |-> TRUE, text |-> NoResponseStub]
  ELSE [threw |-> FALSE, text |-> IF fetch.text = <<>> THEN NoResponseStub ELSE fetch.text[1]]

\* value of a call that returned v / of a call that threw
Returned(v) == [threw |-> FALSE, value |-> v]
Threw == [threw |-> TRUE, value |-> JsNull]

\* a catch block that lets the error escape
AnalyzeCatchRethrows == Threw

\* the catch block of analyzeWebsiteStructure
AnalyzeCatch == Returned(JsNull)

\* analyzeWebsiteStructure from the point where the awaited call has settled
AnalyzeAfterCall(fetch) ==
  LET response == callGeminiAPI(fetch)
  IN IF response.threw THEN AnalyzeCatch ELSE Returned(parseGeminiResponse(response.text))

\* lines 65-76 of generateCodebase: the suggestions kept after the advisor step
SuggestionsAfter(default, outcome) ==
  IF ~outcome.threw /\ Truthy(outcome.value) THEN outcome.value ELSE default

\* ------------------------------------------------------------- synthesis
Grid(columns) == [k |-> "grid", s |-> "lg:grid-cols-", p |-> <<>>, b |-> FALSE, n |-> columns, m |-> <<>>]
Item(i) == [k |-> "item", s |-> "", p |-> <<>>, b |-> FALSE, n |-> i, m |-> <<>>]

Min(a, b) == IF a < b THEN a ELSE b

\* domain.replace(/\./g, "-")
ProjectName(domain) ==
  CASE domain = "acme.io" -> "acme-io" [] domain = "shop.example.com" -> "shop-example-com"
    [] OTHER -> domain

\* domain.split(".")[0] with its first character upper-cased
TitleName(domain) ==
  CASE domain = "acme.io" -> "Acme" [] domain = "shop.example.com" -> "Shop"
    [] OTHER -> domain

Alias(rest) == <<"@">> \o rest
ReactImport(clause) == Import(clause, <<"react">>)
RouterImport(clause) == Import(clause, <<"react-router-dom">>)
HelpersImport == Import("{ cn }", Alias(<<"utils", "helpers">>))
StorageImport == Import("{ storage }", Alias(<<"utils", "storage">>))
StorageKeysImport == Import("{ STORAGE_KEYS }", Alias(<<"constants">>))
RoutesImport == Import("{ ROUTES }", Alias(<<"constants", "routes">>))
ButtonImport == Import("{ Button }", Alias(<<"components", "common">>))

\* a bodyContent string: pad whitespace characters around chars other characters
Body(pad, chars) == [pad |-> pad, chars |-> chars]

BodyThreshold == 100

\* the test on the length of the string as it is, not trimmed
HighFidelityUntrimmed(parsedContent) ==
  /\ parsedContent.bodyContent # <<>>
  /\ parsedContent.bodyContent[1].pad + parsedContent.bodyContent[1].chars > BodyThreshold

\* bodyContent && bodyContent.trim().length > 100; bodyContent is <<>> when
\* undefined, and the empty string is falsy
HighFidelity(parsedContent) ==
  /\ parsedContent.bodyContent # <<>>
  /\ parsedContent.bodyContent[1].pad + parsedContent.bodyContent[1].chars > 0
  /\ parsedContent.bodyContent[1].chars > BodyThreshold

generateViteConfig ==
  <<Import("{ defineConfig }", <<"vite">>), Import("react", <<"@vitejs", "plugin-react">>),
    Import("path", <<"path">>), Lit("export default")>>

generateTailwindConfig == <<Lit("export default"), Lit("primary: {")>>

generateMainTsx ==
  <<ReactImport("React"), Import("ReactDOM", <<"react-dom", "client">>),
    Import("App", <<".", "App">>), Import("", <<".", "styles", "globals", ".css">>),
    Import("", <<".", "styles", "site", ".css">>)>>

generateAppTsx(parsedContent) ==
  IF HighFidelity(parsedContent)
  THEN <<Import("Home", <<".", "pages", "Home">>), Lit("<Home />"), Lit("export default")>>
  ELSE <<Import("{ Layout }", <<".", "components", "layout", "Layout">>),
         Import("Home", <<".", "pages", "Home">>),
         Lit("<Layout>"), Lit("<Home />"), Lit("export default")>>

generateHelpers ==
  <<Import("{ clsx, type ClassValue }", <<"clsx">>), Import("{ twMerge }", <<"tailwind-merge">>),
    Lit("export function")>>

generateGlobalStyles == <<Ring(FALSE, 500, <<>>), Ring(TRUE, 500, <<>>)>>

\* the stylesheet and inline style texts of the crawl, verbatim, with provenance comments
generateBundledSiteCss(parsedContent) ==
  IF ~parsedContent.hasAssets
  THEN <<Lit("/* No crawled CSS available */")>>
  ELSE Flatten([i \in 1..Len(parsedContent.css) |->
                  <<Lit("/* Source */"), parsedContent.css[i], Lit("")>>])

generateAuthContext ==
  <<ReactImport("{ createContext, useContext, useState, useEffect, type ReactNode }"),
    Import("type { User, AuthState }", Alias(<<"types", "user.types">>)),
    Import("{ authService }", Alias(<<"services", "auth.service">>)),
    StorageImport, StorageKeysImport, Lit("export function")>>

generateThemeContext ==
  <<ReactImport("{ createContext, useContext, useState, useEffect, type ReactNode }"),
    StorageImport, StorageKeysImport, Lit("export function")>>

generateUseAuth ==
  <<ReactImport("{ useContext }"), Import("{ AuthContext }", Alias(<<"context", "AuthContext">>)),
    Lit("export function")>>

generateUseApi ==
  <<ReactImport("{ useState, useCallback }"), Import("type { Status }", Alias(<<"types">>)),
    Lit("export function")>>

generateApiService(domain) ==
  <<Import("axios, { type AxiosInstance, type AxiosRequestConfig }", <<"axios">>),
    Import("{ API_BASE_URL, API_TIMEOUT }", Alias(<<"constants", "api">>)),
    StorageImport, StorageKeysImport, Import("{ logger }", Alias(<<"utils", "logger">>)),
    Lit("export const")>>

generateAuthService ==
  <<Import("{ apiService }", <<".", "api.service">>),
    Import("{ API_ENDPOINTS }", Alias(<<"constants", "api">>)),
    Import("type { User }", Alias(<<"types", "user.types">>)), Lit("export const")>>

generateButtonComponent ==
  <<ReactImport("{ forwardRef, type ButtonHTMLAttributes }"), HelpersImport,
    Lit(ButtonSignature), Lit("export const"), Lit("buttonVariants(variant, size)")>>

generateInputComponent ==
  <<ReactImport("{ forwardRef, type InputHTMLAttributes }"), HelpersImport,
    Lit(InputSignature), Ring(FALSE, 500, <<>>), Lit("export const"),
    Lit("inputVariants(inputSize)")>>

generateCardComponent ==
  <<ReactImport("type { HTMLAttributes, ReactNode }"), HelpersImport,
    Lit(CardSignature), Lit("export function"), Lit("cardVariants(variant)")>>

generateModalComponent ==
  <<ReactImport("{ type ReactNode, useEffect, useCallback }"), HelpersImport,
    Lit("export function")>>

generateLoaderComponent == <<HelpersImport, Lit("export function")>>

generateLayoutComponent ==
  <<ReactImport("type { ReactNode }"), Import("{ Header }", <<".", "Header">>),
    Import("{ Footer }", <<".", "Footer">>), Lit("export function")>>

generateNotFoundPage ==
  <<RouterImport("{ Link }"), RoutesImport, ButtonImport, Lit("export function")>>

generateHeaderComponentFromContent(parsedContent) ==
  LET navItemsCode == [i \in 1..Len(parsedContent.navItems) |->
                         Lit("<NavLink to={item.href}>item.text</NavLink>")]
  IN <<RouterImport("{ Link, NavLink }"),
       Import("{ useAuth }", Alias(<<"hooks", "useAuth">>)),
       RoutesImport, ButtonImport, HelpersImport, Lit("export function")>>
     \o (IF navItemsCode # <<>> THEN navItemsCode
         ELSE <<Lit("<NavLink to={ROUTES.HOME}>Home</NavLink>")>>)

\* the year the wall clock shows; the generated Footer reads the clock when it
\* renders (line 3621 is template text), the generator never does
VARIABLE clock

\* a footer carrying the year of generation
generateFooterStampingYear(parsedContent) ==
  <<Lit("export function"), [Lit("&copy;") EXCEPT !.n = clock]>>

generateFooterComponentFromContent(parsedContent) == <<Lit("export function")>>

\* a section component that always emits its grid container
generateSectionWithGridAlways(section, index) ==
  LET items == section.items
      columns == IF section.columns = 0 THEN 3 ELSE section.columns
      maxColumns == Min(columns, IF items = 0 THEN 3 ELSE items)
  IN <<Lit("export function"), Lit(SectionName(index)), OrElse(section.heading, SectionTitle(index))>>
     \o <<Grid(maxColumns)>> \o [i \in 1..items |-> Item(i - 1)]

generateSectionComponentFromContent(section, index) ==
  LET items == section.items
      columns == IF section.columns = 0 THEN 3 ELSE section.columns
      maxColumns == Min(columns, IF items = 0 THEN 3 ELSE items)
  IN <<Lit("export function"), Lit(SectionName(index)), OrElse(section.heading, SectionTitle(index))>>
     \o (IF items > 0
         THEN <<Grid(maxColumns)>> \o [i \in 1..items |-> Item(i - 1)]
         ELSE <<Lit("No items to display")>>)

\* `<Section${i} />`
SectionRender(i) ==
  CASE i = 1 -> "<Section1 />" [] i = 2 -> "<Section2 />" [] i = 3 -> "<Section3 />"
    [] OTHER -> "<SectionN />"

\* the import clause listing Section1..SectionN
SectionsClause(n) ==
  CASE n = 1 -> "{ Section1, }" [] n = 2 -> "{ Section1, Section2, }"
    [] n = 3 -> "{ Section1, Section2, Section3, }"
    [] OTHER -> "{ Section1, Section2, Section3, Section4, }"

generateHomePageFromContent(parsedContent) ==
  LET n == Len(parsedContent.sections)
  IN IF HighFidelity(parsedContent)
     THEN <<Lit("export default function Home()"), Lit("site-content"),
            Lit("dangerouslySetInnerHTML")>>
     ELSE <<RouterImport("{ Link }"), RoutesImport, ButtonImport>>
          \o (IF n > 0 THEN <<Import(SectionsClause(n), Alias(<<"components", "sections">>))>>
              ELSE <<>>)
          \o <<Lit("export default function Home()"), OrElse(parsedContent.title, "Welcome")>>
          \o (IF n > 0 THEN [i \in 1..n |-> Lit(SectionRender(i))]
              ELSE <<Lit("Explore More")>>)

\* aiSuggestions?.sections?.[sectionIndex]?.name || defaultName
getComponentNameFromAI(sectionIndex, defaultName, suggestions) ==
  IF /\ suggestions.sections # <<>>
     /\ sectionIndex + 1 <= Len(suggestions.sections[1])
  THEN suggestions.sections[1][sectionIndex + 1].name
  ELSE defaultName

\* section artifacts named after the advisor's suggestion
SectionFileNameFromAI(i, parsedContent) ==
  <<"src", "components", "sections",
    getComponentNameFromAI(i - 1, SectionName(i), parsedContent.aiSuggestions), ".tsx">>

\* the path of the artifact of section i
SectionFileName(i, parsedContent) == <<"src", "components", "sections", SectionName(i), ".tsx">>

\* the loop of lines 239-244
SectionFiles(parsedContent) ==
  [i \in 1..Len(parsedContent.sections) |->
     File(SectionFileName(i, parsedContent),
          generateSectionComponentFromContent(parsedContent.sections[i], i))]

\* an index whose export names count from zero
SectionsIndexFromZero(parsedContent) ==
  IF Len(parsedContent.sections) > 0
  THEN [i \in 1..Len(parsedContent.sections) |-> Lit(SectionName(i - 1))]
  ELSE <<Lit("// Sections will be added here")>>

\* the sections index artifact, lines 247-254
SectionsIndex(parsedContent) ==
  IF Len(parsedContent.sections) > 0
  THEN [i \in 1..Len(parsedContent.sections) |-> Lit(SectionName(i))]
  ELSE <<Lit("// Sections will be added here")>>

Template(name) == <<Lit(name)>>
Exports(name) == <<Lit(name), Lit("export const")>>

\* every addFile call of generateCodebase, in call order
ArtifactPlan(domain, parsedContent) ==
  << File(<<"package", ".json">>, Template(ProjectName(domain))),
     File(<<"tsconfig", ".json">>, Template("tsconfig")),
     File(<<"tsconfig.node", ".json">>, Template("tsconfig.node")),
     File(<<"vite.config", ".ts">>, generateViteConfig),
     File(<<"tailwind.config", ".js">>, generateTailwindConfig),
     File(<<"postcss.config", ".js">>, Template("export default")),
     File(<<".eslintrc", ".cjs">>, Template("eslint")),
     File(<<".prettierrc">>, Template("prettier")),
     File(<<".gitignore">>, Template("gitignore")),
     File(<<"README", ".md">>, <<parsedContent.title, Lit(domain)>>),
     File(<<"index", ".html">>, <<parsedContent.title>>),
     File(<<"src", "main", ".tsx">>, generateMainTsx),
     File(<<"src", "App", ".tsx">>, generateAppTsx(parsedContent)),
     File(<<"src", "vite-env.d", ".ts">>, Template("vite/client")),
     File(<<"src", "types", "index", ".ts">>, Exports("types")),
     File(<<"src", "types", "api.types", ".ts">>, Exports("api types")),
     File(<<"src", "types", "user.types", ".ts">>, Exports("user types")),
     File(<<"src", "constants", "index", ".ts">>, Exports(TitleName(domain))),
     File(<<"src", "constants", "routes", ".ts">>, Exports("ROUTES")),
     File(<<"src", "constants", "api", ".ts">>, Exports(domain)),
     File(<<"src", "utils", "index", ".ts">>, Template("export * from")),
     File(<<"src", "utils", "helpers", ".ts">>, generateHelpers),
     File(<<"src", "utils", "validators", ".ts">>, Exports("validators")),
     File(<<"src", "utils", "formatters", ".ts">>, Exports("formatters")),
     File(<<"src", "utils", "storage", ".ts">>, Exports("storage")),
     File(<<"src", "utils", "logger", ".ts">>, Exports("logger")),
     File(<<"src", "styles", "globals", ".css">>, generateGlobalStyles),
     File(<<"src", "styles", "site", ".css">>, generateBundledSiteCss(parsedContent)),
     File(<<"src", "context", "ThemeContext", ".tsx">>, generateThemeContext),
     File(<<"src", "context", "AuthContext", ".tsx">>, generateAuthContext),
     File(<<"src", "hooks", "useApi", ".ts">>, generateUseApi),
     File(<<"src", "hooks", "useAuth", ".ts">>, generateUseAuth),
     File(<<"src", "services", "api.service", ".ts">>, generateApiService(domain)),
     File(<<"src", "services", "auth.service", ".ts">>, generateAuthService),
     File(ButtonPath, generateButtonComponent),
     File(InputPath, generateInputComponent),
     File(CardPath, generateCardComponent),
     File(<<"src", "components", "common", "Modal", ".tsx">>, generateModalComponent),
     File(<<"src", "components", "common", "Loader", ".tsx">>, generateLoaderComponent),
     File(<<"src", "components", "common", "index", ".ts">>, Template("export { Button } from")),
     File(HeaderPath, generateHeaderComponentFromContent(parsedContent)),
     File(<<"src", "components", "layout", "Footer", ".tsx">>,
          generateFooterComponentFromContent(parsedContent)),
     File(<<"src", "components", "layout", "Layout", ".tsx">>, generateLayoutComponent) >>
  \o SectionFiles(parsedContent)
  \o << File(<<"src", "components", "sections", "index", ".ts">>, SectionsIndex(parsedContent)),
        File(HomePath, generateHomePageFromContent(parsedContent)),
        File(<<"src", "pages", "NotFound", ".tsx">>, generateNotFoundPage) >>

\* JSZip: zip.file(path, content) for every file, a later entry replacing an
\* earlier one of the same path
ZipOf(files) ==
  [path \in {files[i].path : i \in 1..Len(files)} |->
     files[CHOOSE j \in 1..Len(files) :
             files[j].path = path /\ \A h \in (j + 1)..Len(files) : files[h].path # path].content]

generateValidationReport(result) ==
  [header |-> IF result.isValid THEN "VALIDATION PASSED" ELSE "VALIDATION FAILED",
   errors |-> result.errors, warnings |-> result.warnings,
   typeChecks |-> IF result.typeChecksPassed THEN "PASSED" ELSE "FAILED",
   criticalErrors |-> Len(result.errors), warningCount |-> Len(result.warnings)]

\* ------------------------------------------------ route.ts: text and URLs
\* A domain name is the sequence of its labels, a label a sequence of
\* characters: "acme.io" is <<<<"a","c","m","e">>, <<"i","o">>>>.  A text is a
\* sequence of chunks (characters or longer literals).
NavLimit == 10
ImageLimit == 50

\* String.prototype.toUpperCase on one character
ToUpperCase(c) ==
  CASE c = "a" -> "A" [] c = "c" -> "C" [] c = "e" -> "E" [] c = "i" -> "I"
    [] c = "m" -> "M" [] c = "o" -> "O" [] c = "x" -> "X" [] OTHER -> c

\* the whole domain name in place of its first label
WholeName(labels) == IF Len(labels) = 1 THEN labels[1]
                     ELSE labels[1] \o <<".">> \o labels[2]

\* domain.split(".")[0]
FirstLabel(labels) == labels[1]

\* s.charAt(0).toUpperCase() + s.slice(1)
Capitalize(s) == IF s = <<>> THEN <<>> ELSE <<ToUpperCase(s[1])>> \o Tail(s)

\* the labels joined by "."
RECURSIVE DomainText(_)
DomainText(labels) ==
  IF Len(labels) = 1 THEN labels[1]
  ELSE labels[1] \o <<".">> \o DomainText(Tail(labels))

\* a URL as written in an attribute: form tells how it starts
Url(form, host, path) == [form |-> form, host |-> host, path |-> path]

normalizeUrl(url, domain) ==
  CASE url.form = "empty" -> url
    [] url.form = "data" -> url
    [] url.form = "absolute" -> url
    [] url.form = "protocol-relative" -> Url("absolute", url.host, url.path)
    [] url.form = "root-relative" -> Url("absolute", DomainText(domain), url.path)
    [] OTHER -> Url("absolute", DomainText(domain), url.path)

\* normalizeUrl on the characters of its argument
HasPrefix(chars, prefix) ==
  Len(chars) >= Len(prefix) /\ SubSeq(chars, 1, Len(prefix)) = prefix

DataPrefix == <<"d", "a", "t", "a", ":">>
HttpPrefix == <<"h", "t", "t", "p", ":", "/", "/">>
HttpsPrefix == <<"h", "t", "t", "p", "s", ":", "/", "/">>

\* the root-relative case tried before the protocol-relative one
normalizeUrlRootFirst(url, domain) ==
  IF url = <<>> THEN <<>>
  ELSE IF HasPrefix(url, DataPrefix) THEN url
  ELSE IF HasPrefix(url, HttpPrefix) \/ HasPrefix(url, HttpsPrefix) THEN url
  ELSE IF HasPrefix(url, <<"/">>) THEN HttpsPrefix \o DomainText(domain) \o url
  ELSE IF HasPrefix(url, <<"/", "/">>) THEN <<"h", "t", "t", "p", "s", ":">> \o url
  ELSE HttpsPrefix \o DomainText(domain) \o <<"/">> \o url

\* lines 554-561, character by character
normalizeUrlChars(url, domain) ==
  IF url = <<>> THEN <<>>
  ELSE IF HasPrefix(url, DataPrefix) THEN url
  ELSE IF HasPrefix(url, HttpPrefix) \/ HasPrefix(url, HttpsPrefix) THEN url
  ELSE IF HasPrefix(url, <<"/", "/">>) THEN <<"h", "t", "t", "p", "s", ":">> \o url
  ELSE IF HasPrefix(url, <<"/">>) THEN HttpsPrefix \o DomainText(domain) \o url
  ELSE HttpsPrefix \o DomainText(domain) \o <<"/">> \o url

\* how a URL text starts, as the forms of Url tell it
FormOf(chars) ==
  IF chars = <<>> THEN "empty"
  ELSE IF HasPrefix(chars, DataPrefix) THEN "data"
  ELSE IF HasPrefix(chars, HttpPrefix) \/ HasPrefix(chars, HttpsPrefix) THEN "absolute"
  ELSE IF HasPrefix(chars, <<"/", "/">>) THEN "protocol-relative"
  ELSE IF HasPrefix(chars, <<"/">>) THEN "root-relative"
  ELSE "relative"

\* a palette whose text default is another gray
GrayTextColors ==
  [primary |-> "#3b82f6", secondary |-> "#1e40af", accent |-> "#60a5fa",
   background |-> "#ffffff", text |-> "#111827"]

DefaultColors ==
  [primary |-> "#3b82f6", secondary |-> "#1e40af", accent |-> "#60a5fa",
   background |-> "#ffffff", text |-> "#1f2937"]

\* a value a call yields, or the exception it raises
Ok(v) == [threw |-> FALSE, value |-> <<v>>]
Raised == [threw |-> TRUE, value |-> <<>>]

EmptyCrawl ==
  [html |-> <<"">>, cssFiles |-> << <<>> >>, jsFiles |-> << <<>> >>,
   inlineStyles |-> << <<>> >>, inlineScripts |-> << <<>> >>]

\* generateMockContent for a domain of the request body: a string (its labels)
\* or another truthy JSON value, on which domain.split is not a function
generateMockContent(domain) ==
  IF domain.t # "string" THEN Raised
  ELSE LET titleCase == Capitalize(FirstLabel(domain.labels))
       IN Ok([title |-> titleCase,
              description |-> <<"Learn about ">> \o titleCase,
              favicon |-> <<>>,
              navItems |-> <<[text |-> "Home", href |-> "/", ariaLabel |-> <<>>],
                             [text |-> "About", href |-> "/about", ariaLabel |-> <<>>],
                             [text |-> "Services", href |-> "/services", ariaLabel |-> <<>>],
                             [text |-> "Contact", href |-> "/contact", ariaLabel |-> <<>>]>>,
              hero |-> <<[title |-> <<"Welcome to ">> \o titleCase,
                          subtitle |-> "Building amazing digital experiences",
                          ctaText |-> "Get Started", ctaLink |-> "/contact"]>>,
              sections |-> <<[id |-> <<"section-", 1>>, type |-> "features",
                              heading |-> "Why Choose Us", items |-> 3, columns |-> 3]>>,
              footerLinks |-> <<"Company">>,
              images |-> <<>>,
              formElements |-> <<"email">>,
              colors |-> DefaultColors,
              bodyContent |-> "",
              crawledAssets |-> EmptyCrawl])

\* --------------------------------------------- route.ts: color palette
\* A stylesheet text is a sequence of tokens: a declaration "name: value;" or
\* other text that holds neither ":" nor "--".
Decl(name, value) == [k |-> "decl", name |-> name, value |-> value]
CssText(str) == [k |-> "text", name |-> "", value |-> str]

\* declaration names that begin, letter case ignored, with the custom property
NamesStartingWith(key) ==
  CASE key = "--primary" -> {"--primary", "--primary-color"}
    [] key = "--secondary" -> {"--secondary"}
    [] key = "--accent" -> {"--accent", "--ACCENT", "--accent-foreground"}
    [] OTHER -> {}

\* values whose text holds the custom property's name
ValuesContaining(key) ==
  CASE key = "--accent" -> {"var(--accent)"}
    [] OTHER -> {}

\* the longest prefix of a value made of the characters [#\w(),.], <<>> if empty
ColorCapture(value) ==
  CASE value = "#112233" -> <<"#112233">>
    [] value = "#0a0b0c" -> <<"#0a0b0c">>
    [] value = "rgb(1, 2, 3)" -> <<"rgb(1,">>
    [] value = "var(--accent)" -> <<"var(">>
    [] OTHER -> <<>>

\* the captures of /key[^:]*:\s*([#\w(),.]+)/i that start inside token i, in
\* text order: at the name of a declaration, then inside its value (from where
\* [^:]* runs on to the colon of the next declaration)
CapturesAt(css, i, key) ==
  LET tok == css[i]
      later == {j \in (i + 1)..Len(css) : css[j].k = "decl"}
      nextDecl == CHOOSE j \in later : \A h \in later : j <= h
  IN (IF tok.k = "decl" /\ tok.name \in NamesStartingWith(key)
      THEN ColorCapture(tok.value) ELSE <<>>)
     \o
     (IF tok.k = "decl" /\ tok.value \in ValuesContaining(key) /\ later # {}
      THEN ColorCapture(css[nextDecl].value) ELSE <<>>)

\* allCss.match(/key.../i): <<>> for null, else <<match[1]>>
ColorMatch(css, key) ==
  LET all == Flatten([i \in 1..Len(css) |-> CapturesAt(css, i, key)])
  IN IF all = <<>> THEN <<>> ELSE <<all[1]>>

extractColorsFromAssets(crawledAssets) ==
  IF crawledAssets.cssFiles = <<>> \/ crawledAssets.inlineStyles = <<>>
  THEN Raised
  ELSE LET allCss == Flatten([i \in 1..Len(crawledAssets.cssFiles[1]) |->
                                 crawledAssets.cssFiles[1][i].content])
                     \o Flatten(crawledAssets.inlineStyles[1])
           primaryMatch == ColorMatch(allCss, "--primary")
           secondaryMatch == ColorMatch(allCss, "--secondary")
           accentMatch == ColorMatch(allCss, "--accent")
       IN Ok([primary |-> IF primaryMatch # <<>> THEN primaryMatch[1] ELSE DefaultColors.primary,
              secondary |-> IF secondaryMatch # <<>> THEN secondaryMatch[1]
                            ELSE DefaultColors.secondary,
              accent |-> IF accentMatch # <<>> THEN accentMatch[1] ELSE DefaultColors.accent,
              background |-> DefaultColors.background,
              text |-> DefaultColors.text])

\* ------------------------------------------------ route.ts: section type
\* words of the inner markup that hold the keyword as a substring
WordsContaining(keyword) ==
  CASE keyword = "form" -> {"form", "information"}
    [] keyword = "plan" -> {"plan", "planet"}
    [] OTHER -> {keyword}

\* el.html().includes(keyword)
HtmlIncludes(el, keyword) == el.words \cap WordsContaining(keyword) # {}

\* the card rule tried before the substring rules
detectSectionTypeCardsFirst(el) ==
  IF el.cards > 0 THEN "cards"
  ELSE IF HtmlIncludes(el, "testimonial") \/ HtmlIncludes(el, "quote") THEN "testimonials"
  ELSE IF HtmlIncludes(el, "pricing") \/ HtmlIncludes(el, "plan") THEN "pricing"
  ELSE IF HtmlIncludes(el, "faq") \/ HtmlIncludes(el, "question") THEN "faq"
  ELSE IF HtmlIncludes(el, "contact") \/ HtmlIncludes(el, "form") THEN "contact"
  ELSE "features"

detectSectionType(el) ==
  IF HtmlIncludes(el, "testimonial") \/ HtmlIncludes(el, "quote") THEN "testimonials"
  ELSE IF HtmlIncludes(el, "pricing") \/ HtmlIncludes(el, "plan") THEN "pricing"
  ELSE IF HtmlIncludes(el, "faq") \/ HtmlIncludes(el, "question") THEN "faq"
  ELSE IF HtmlIncludes(el, "contact") \/ HtmlIncludes(el, "form") THEN "contact"
  ELSE IF el.cards > 0 THEN "cards"
  ELSE "features"

\* --------------------------------------------- route.ts: parseWebsiteContent
\* The markup is given by what the selectors of parseWebsiteContent find in it:
\* the text of <title>, the first header/nav element and its anchors, the img
\* elements and the section candidates, all in document order.
Markup(title, landmark, anchors, imgs, sections) ==
  [title |-> title, landmark |-> landmark, anchors |-> anchors, imgs |-> imgs,
   sections |-> sections]

\* $(el).text().trim() of an anchor: kind tells what the acceptance test sees
AnchorText(kind, id) == [kind |-> kind, id |-> id]

\* $(el).attr("href") || "#"
HrefOrHash(href) == IF href = <<>> \/ href[1].form = "empty"
                    THEN Url("relative", "", <<"#", 0>>) ELSE href[1]

\* text && text.length < 100 && !text.includes("\n")
AnchorAccepted(a) == a.text.kind = "ok"

\* the navItems pushed by lines 397-403, in document order
CollectNavItems(anchors, domain) ==
  LET accepted == SelectSeq(anchors, AnchorAccepted)
  IN [i \in 1..Len(accepted) |->
        [text |-> accepted[i].text, href |-> normalizeUrl(HrefOrHash(accepted[i].href), domain),
         ariaLabel |-> accepted[i].ariaLabel]]

\* JSON.stringify of a NavItem: an undefined ariaLabel is left out
StringifyNavItem(n) ==
  <<"text", n.text, "href", n.href>>
  \o (IF n.ariaLabel = <<>> THEN <<>> ELSE <<"ariaLabel", n.ariaLabel[1]>>)

\* JSON.parse of such a string
ParseNavItem(str) ==
  [text |-> str[2], href |-> str[4],
   ariaLabel |-> IF Len(str) > 4 THEN <<str[6]>> ELSE <<>>]

\* [...new Set(strings)]: each string once, at the place of its first occurrence
RECURSIVE SetOrder(_)
SetOrder(strings) ==
  IF strings = <<>> THEN <<>>
  ELSE LET init == SetOrder(SubSeq(strings, 1, Len(strings) - 1))
           last == strings[Len(strings)]
       IN IF \E i \in 1..Len(init) : init[i] = last THEN init ELSE Append(init, last)

\* Array.prototype.slice(0, n)
Slice(s, n) == SubSeq(s, 1, IF Len(s) < n THEN Len(s) ELSE n)

\* slicing the collected items before the duplicates are removed
NavItemsSlicedFirst(collected) ==
  SeqMap(ParseNavItem, SetOrder(SeqMap(StringifyNavItem, Slice(collected, NavLimit))))

\* line 523
NavItemsOf(collected) ==
  Slice(SeqMap(ParseNavItem, SetOrder(SeqMap(StringifyNavItem, collected))), NavLimit)

\* src.includes("data:")
UrlIncludesData(url) == url.form = "data" \/ url.path[1] = "cb?next=data:"

\* src && !src.includes("data:")
ImgAccepted(img) == img.src.form # "empty" /\ ~UrlIncludesData(img.src)

\* an image entry taken from any img element that has a src
ImagesOfAllSources(imgs, domain) ==
  LET kept == SelectSeq(imgs, LAMBDA img : img.src.form # "empty")
  IN [i \in 1..Len(kept) |->
        [src |-> normalizeUrl(kept[i].src, domain),
         alt |-> IF kept[i].alt = "" THEN "Image" ELSE kept[i].alt,
         section |-> IF kept[i].section = "" THEN "general" ELSE kept[i].section]]

\* the images pushed by lines 423-434, in document order
CollectImages(imgs, domain) ==
  LET kept == SelectSeq(imgs, ImgAccepted)
  IN [i \in 1..Len(kept) |->
        [src |-> normalizeUrl(kept[i].src, domain),
         alt |-> IF kept[i].alt = "" THEN "Image" ELSE kept[i].alt,
         section |-> IF kept[i].section = "" THEN "general" ELSE kept[i].section]]

\* the sections pushed by lines 477-518: candidates with fewer than 20
\* characters of text are skipped, the id counts every candidate
CollectSections(candidates) ==
  LET accepted == SelectSeq([i \in 1..Len(candidates) |-> i],
                            LAMBDA i : candidates[i].long)
  IN [k \in 1..Len(accepted) |->
        LET el == candidates[accepted[k]]
        IN [id |-> <<"section-", accepted[k] - 1>>,
            type |-> detectSectionType(el),
            heading |-> IF el.heading = "" THEN <<"Section ", k>> ELSE <<el.heading, 0>>,
            items |-> 0, columns |-> 0]]

\* html is <<>> for undefined (cheerio.load throws on it), else <<markup>>
parseWebsiteContent(html, domain, assets) ==
  IF html = <<>> THEN Raised
  ELSE LET m == html[1]
           title == IF m.title = <<>> THEN DomainText(domain.labels) ELSE m.title
           colorPalette == extractColorsFromAssets(assets)
       IN IF colorPalette.threw THEN Raised
          ELSE Ok([title |-> title,
                   description |-> <<>>,
                   favicon |-> <<>>,
                   navItems |-> NavItemsOf(CollectNavItems(m.anchors, domain.labels)),
                   hero |-> IF m.landmark = "header"
                            THEN <<[title |-> title, subtitle |-> ""]>>
                            ELSE <<>>,
                   sections |-> CollectSections(m.sections),
                   footerLinks |-> <<>>,
                   images |-> Slice(CollectImages(m.imgs, domain.labels), ImageLimit),
                   formElements |-> <<>>,
                   colors |-> colorPalette.value[1],
                   bodyContent |-> "",
                   crawledAssets |-> assets])

\* --------------------------------------------- route.ts: crawlAndFetchAssets
\* value || [] for a field of the Python crawler's result
OrEmptyList(field) == IF field = <<>> THEN << <<>> >> ELSE field

\* crawl.python: the Python crawler throws (or prints no JSON), reports an
\* error, or prints a result; crawl.node: the fallback fetch throws or answers;
\* crawl.page: what either of them finds
crawlAndFetchAssets(domain, crawl) ==
  IF crawl.python = "ok"
  THEN Ok([html |-> crawl.page[1].html,
           cssFiles |-> OrEmptyList(crawl.page[1].cssFiles),
           jsFiles |-> << <<>> >>,
           inlineStyles |-> OrEmptyList(crawl.page[1].inlineStyles),
           inlineScripts |-> << <<>> >>])
  ELSE IF crawl.node = "ok"
  THEN Ok([html |-> IF crawl.page[1].html = <<>> THEN <<Markup(<<>>, "none", <<>>, <<>>, <<>>)>>
                    ELSE crawl.page[1].html,
           cssFiles |-> OrEmptyList(crawl.page[1].cssFiles),
           jsFiles |-> << <<>> >>,
           inlineStyles |-> OrEmptyList(crawl.page[1].inlineStyles),
           inlineScripts |-> << <<>> >>])
  ELSE Raised

\* a domain value of the request body
Dom(t, labels) == [t |-> t, labels |-> labels]

\* if (!domain)
DomainFalsy(request) ==
  \/ request.kind = "absent"
  \/ request.domain = Dom("string", << <<>> >>)
  \/ request.domain = Dom("number", << <<"0">> >>)

\* the bodies of NextResponse.json
JsonResponse(status, accessible, content) ==
  [status |-> status, success |-> status = 200, accessible |-> accessible,
   parsedContent |-> content]

\* ------------------------------------------------------------------ state
VARIABLES
  pc,               \* position of the run of generateCodebase / of the validation engine
  domain,           \* argument of generateCodebase
  parsedContent,    \* the ContentModel, with its aiSuggestions field
  geminiEnabled,    \* isGeminiEnabled(): use_ai=1 or ENABLE_GEMINI in the browser
  apiKey,           \* getGeminiApiKey() finds a key
  fetch,            \* the HTTP call of callGeminiAPI
  geminiAnalysis,   \* outcome of analyzeWebsiteStructure
  aiSuggestions,    \* local of generateCodebase
  generatedFiles,   \* artifacts pushed by addFile / handed to the validation engine
  fileNames,        \* paths pushed by addFile
  fixedFiles,       \* artifacts returned by validateAndFixCodebase
  zodValidation,    \* report of the signature/pattern pass
  validationResult, \* report of the import-resolution pass
  result,           \* value returned by generateCodebase
  resolved,         \* imports for which a matching artifact was added afterwards
  request,          \* body of the POST request to /api/fetch-website
  crawl,            \* what the crawler and the network do for this request
  crawledAssets,    \* the CrawlResult handed to parseWebsiteContent
  response,         \* the NextResponse of the POST handler
  prevFiles,        \* artifacts of the previous run on the same inputs
  ui,               \* state of the CodebaseGenerator component and of its running handleGenerate
  requests,         \* the per-URL promises of one fetchAllFiles call
  fetchedFiles,     \* what the fetchAllFiles call resolved with, <<>> while it has not
  prevReport,       \* the report of the previous validateAndFixCodebase call, <<>> if none
  urlArgs,          \* arguments of a normalizeUrl call
  normalized        \* its result, and the result of normalizing that again

routeVars == <<request, crawl, crawledAssets, response>>
clockVars == <<clock, prevFiles, prevReport>>
uiVars == <<ui>>
fetchVars == <<requests, fetchedFiles>>
urlVars == <<urlArgs, normalized>>

vars == <<pc, domain, parsedContent, geminiEnabled, apiKey, fetch, geminiAnalysis,
          aiSuggestions, generatedFiles, fileNames, fixedFiles, zodValidation,
          validationResult, result, resolved, routeVars, clockVars, uiVars, fetchVars, urlVars>>

\* no request is being served
RouteIdle ==
  /\ request = [kind |-> "none", domain |-> <<>>]
  /\ crawl = [python |-> "none", node |-> "none", page |-> <<>>]
  /\ crawledAssets = <<>>
  /\ response = [status |-> 0]

\* a single run at a fixed date
ClockIdle == clock = 2026 /\ prevFiles = <<>> /\ prevReport = <<>>

\* no normalizeUrl call
UrlIdle == urlArgs = <<>> /\ normalized = <<>>

\* the component as mounted: useState initial values, no handler running
UiIdle ==
  ui = [status |-> "idle", error |-> <<>>, generatedFiles |-> <<>>, wasAccessible |-> <<>>,
        domain |-> [scheme |-> "", host |-> "", tail |-> ""], at |-> "rest", post |-> "none", generation |-> "none"]

\* no fetchAllFiles call
FetchIdle == requests = <<>> /\ fetchedFiles = <<>>

EmptyZod == [isValid |-> TRUE, errors |-> <<>>, warnings |-> <<>>,
             typeChecksPassed |-> TRUE, syntaxErrors |-> <<>>]
EmptyImports == [isValid |-> TRUE, errors |-> <<>>, warnings |-> <<>>]
NoResult == [returned |-> FALSE, files |-> <<>>, zipBlob |-> ZipOf(<<>>),
             validationReport |-> EmptyImports,
             typeCheckReport |-> generateValidationReport(EmptyZod),
             zodValidation |-> EmptyZod]

\* ------------------------------------------------------------ input pools
Domains == {"acme.io"}

SectionPool ==
  {[heading |-> Lit("Pricing"), items |-> 0, columns |-> 0],
   [heading |-> Lit(""), items |-> 2, columns |-> 0],
   [heading |-> Lit("Team"), items |-> 1, columns |-> 4]}

SeqsUpTo(S, n) == UNION {[1..k -> S] : k \in 0..n}

NavPool == {<<>>, <<[text |-> "About", href |-> "/about"]>>}

\* crawled stylesheet texts: none, or one with a class the fix repairs and one
\* it repairs in part
CssPool == {<<>>, <<Ring(FALSE, 500, <<20>>), Ring(FALSE, 500, <<20, 20>>)>>}

ContentModels ==
  {[title |-> Lit("Acme"), description |-> Lit(""), navItems |-> nav, sections |-> secs,
    bodyContent |-> body, hasAssets |-> TRUE, css |-> css, aiSuggestions |-> JsUndefined] :
     nav \in NavPool, secs \in SeqsUpTo(SectionPool, MaxSections),
     body \in {<<Body(1, BodyThreshold)>>, <<Body(0, BodyThreshold + 1)>>}, css \in CssPool}

\* a well-formed advisor answer for n sections
AdvisorAnalysis(n) ==
  JsVal("obj",
    <<  <<[name |-> "Landing", description |-> "Landing page",
           sections |-> [i \in 1..n |-> SectionId(i - 1)]]>>  >>,
    <<  [i \in 1..n |-> [id |-> SectionId(i - 1), name |-> "HeroBanner", type |-> "hero",
                           description |-> Lit("Hero")]]  >>,
    <<  <<"Button", "Header", "Footer">>  >>,
    <<  [totalSections |-> n, reusableComponentCount |-> 1,
         suggestedPages |-> <<"Landing">>, layoutStrategy |-> "multi-page"]  >>,
    <<>>, <<>>)

\* candidate texts the advisor may answer with
AdvisorTexts(n) ==
  {Text(FALSE, "Here is my analysis", JsNull),
   Text(TRUE, "null", JsNull),
   Text(TRUE, "{\"note\":\"n/a\"}", JsVal("obj", <<>>, <<>>, <<>>, <<>>, <<>>, <<>>)),
   Text(TRUE, "{\"pages\":...}", AdvisorAnalysis(n))}

\* the ways the fetch can settle
FetchOutcomes(n) ==
  {Fetch("rejected", FALSE, FALSE, <<>>),
   Fetch("resolved", FALSE, TRUE, <<>>),
   Fetch("resolved", TRUE, FALSE, <<>>),
   Fetch("resolved", TRUE, TRUE, <<>>)}
  \cup {Fetch("resolved", TRUE, TRUE, <<t>>) : t \in AdvisorTexts(n)}

\* ------------------------------------------------------- generateCodebase
Init ==
  /\ RouteIdle /\ ClockIdle /\ UiIdle /\ FetchIdle /\ UrlIdle
  /\ pc = "start"
  /\ domain \in Domains
  /\ parsedContent \in ContentModels
  /\ geminiEnabled \in BOOLEAN
  /\ apiKey \in BOOLEAN
  /\ fetch = NoFetch
  /\ geminiAnalysis = Returned(JsUndefined)
  /\ aiSuggestions = JsUndefined
  /\ generatedFiles = <<>>
  /\ fileNames = <<>>
  /\ fixedFiles = <<>>
  /\ zodValidation = EmptyZod
  /\ validationResult = EmptyImports
  /\ result = NoResult
  /\ resolved = {}

\* lines 61-63: the default suggestions, then the call of analyzeWebsiteStructure
DefaultSuggestions ==
  /\ UNCHANGED <<routeVars, clockVars, uiVars, fetchVars, urlVars>>
  /\ pc = "start"
  /\ aiSuggestions' = getDefaultStructureSuggestions(parsedContent)
  /\ pc' = "analyze"
  /\ UNCHANGED <<domain, parsedContent, geminiEnabled, apiKey, fetch, geminiAnalysis,
                 generatedFiles, fileNames, fixedFiles, zodValidation, validationResult,
                 result, resolved>>

\* analyzeWebsiteStructure, lines 73-76: the advisor is disabled
AnalyzeDisabled ==
  /\ UNCHANGED <<routeVars, clockVars, uiVars, fetchVars, urlVars>>
  /\ pc = "analyze"
  /\ ~geminiEnabled
  /\ geminiAnalysis' = Returned(JsNull)
  /\ pc' = "analyzed"
  /\ UNCHANGED <<domain, parsedContent, geminiEnabled, apiKey, fetch, aiSuggestions,
                 generatedFiles, fileNames, fixedFiles, zodValidation, validationResult,
                 result, resolved>>

\* analyzeWebsiteStructure, lines 79-83: no API key
AnalyzeNoKey ==
  /\ UNCHANGED <<routeVars, clockVars, uiVars, fetchVars, urlVars>>
  /\ pc = "analyze"
  /\ geminiEnabled /\ ~apiKey
  /\ geminiAnalysis' = Returned(JsNull)
  /\ pc' = "analyzed"
  /\ UNCHANGED <<domain, parsedContent, geminiEnabled, apiKey, fetch, aiSuggestions,
                 generatedFiles, fileNames, fixedFiles, zodValidation, validationResult,
                 result, resolved>>

\* analyzeWebsiteStructure, lines 86-93: callGeminiAPI issues its fetch and awaits it
AnalyzeCall ==
  /\ UNCHANGED <<routeVars, clockVars, uiVars, fetchVars, urlVars>>
  /\ pc = "analyze"
  /\ geminiEnabled /\ apiKey
  /\ fetch' = Pending
  /\ pc' = "awaitFetch"
  /\ UNCHANGED <<domain, parsedContent, geminiEnabled, apiKey, geminiAnalysis, aiSuggestions,
                 generatedFiles, fileNames, fixedFiles, zodValidation, validationResult,
                 result, resolved>>

\* the network settles the pending fetch (it need never do so)
FetchSettles ==
  /\ UNCHANGED <<routeVars, clockVars, uiVars, fetchVars, urlVars>>
  /\ fetch.state = "pending"
  /\ fetch' \in FetchOutcomes(Len(parsedContent.sections))
  /\ UNCHANGED <<pc, domain, parsedContent, geminiEnabled, apiKey, geminiAnalysis,
                 aiSuggestions, generatedFiles, fileNames, fixedFiles, zodValidation,
                 validationResult, result, resolved>>

\* analyzeWebsiteStructure resumes after the await, lines 89-103
AnalyzeResume ==
  /\ UNCHANGED <<routeVars, clockVars, uiVars, fetchVars, urlVars>>
  /\ pc = "awaitFetch"
  /\ fetch.state \in {"rejected", "resolved"}
  /\ geminiAnalysis' = AnalyzeAfterCall(fetch)
  /\ pc' = "analyzed"
  /\ UNCHANGED <<domain, parsedContent, geminiEnabled, apiKey, fetch, aiSuggestions,
                 generatedFiles, fileNames, fixedFiles, zodValidation, validationResult,
                 result, resolved>>

\* lines 65-79: keep the advisor's answer when truthy, attach the suggestions
StoreSuggestions ==
  /\ UNCHANGED <<routeVars, clockVars, uiVars, fetchVars, urlVars>>
  /\ pc = "analyzed"
  /\ aiSuggestions' = SuggestionsAfter(aiSuggestions, geminiAnalysis)
  /\ parsedContent' = [parsedContent EXCEPT !.aiSuggestions = aiSuggestions']
  /\ pc' = "emit"
  /\ UNCHANGED <<domain, geminiEnabled, apiKey, fetch, geminiAnalysis, generatedFiles,
                 fileNames, fixedFiles, zodValidation, validationResult, result, resolved>>

\* one addFile call (lines 49-53) of the sequence of lines 82-262
AddFile ==
  /\ UNCHANGED <<routeVars, clockVars, uiVars, fetchVars, urlVars>>
  /\ pc = "emit"
  /\ LET plan == ArtifactPlan(domain, parsedContent)
         next == plan[Len(generatedFiles) + 1]
     IN /\ generatedFiles' = Append(generatedFiles, next)
        /\ fileNames' = Append(fileNames, next.path)
        /\ pc' = IF Len(generatedFiles') = Len(plan) THEN "validate" ELSE "emit"
  /\ UNCHANGED <<domain, parsedContent, geminiEnabled, apiKey, fetch, geminiAnalysis,
                 aiSuggestions, fixedFiles, zodValidation, validationResult, result, resolved>>

\* line 269: validateAndFixCodebase(generatedFiles)
\* a fix that writes the repaired texts into the artifacts it was given
ArgumentFixedInPlace(files, fixed) == fixed

\* the caller's list after the call: autoFixTailwindClasses and
\* autoFixGeneratedCode build new lists of new objects with map and spread
ArgumentAfterFix(files, fixed) == files

ZodValidate ==
  /\ UNCHANGED <<routeVars, clockVars, uiVars, fetchVars, urlVars>>
  /\ pc = "validate"
  /\ LET out == validateAndFixCodebase(generatedFiles)
     IN /\ fixedFiles' = out.files
        /\ zodValidation' = out.result
        /\ generatedFiles' = ArgumentAfterFix(generatedFiles, out.files)
  /\ pc' = "imports"
  /\ UNCHANGED <<domain, parsedContent, geminiEnabled, apiKey, fetch, geminiAnalysis,
                 aiSuggestions, fileNames, validationResult, result, resolved>>

\* packaging the files as generated, before the fix
filesBeforeZodFix(generated, fixed) == generated

\* line 286: the files that are validated for imports and packaged
filesAfterZodFix(generated, fixed) == fixed

\* an import pass that drops the artifacts it reports errors for
ArgumentPrunedByImports(files) ==
  SelectSeq(files, LAMBDA f :
    \A i \in 1..Len(validateImports(files).errors) :
       validateImports(files).errors[i].file # f.path)

\* the array handed to validateImports, once the pass has run: lines 35-39 copy
\* every (path, content) into a fresh Map and nothing writes to the array
ArgumentAfterImports(files) == files

\* line 290: validateImportsEnhanced(filesAfterZodFix)
ImportValidate ==
  /\ UNCHANGED <<routeVars, clockVars, uiVars, fetchVars, urlVars>>
  /\ pc = "imports"
  /\ validationResult' = validateImportsEnhanced(filesAfterZodFix(generatedFiles, fixedFiles))
  /\ fixedFiles' = ArgumentAfterImports(fixedFiles)
  /\ pc' = "zip"
  /\ UNCHANGED <<domain, parsedContent, geminiEnabled, apiKey, fetch, geminiAnalysis,
                 aiSuggestions, generatedFiles, fileNames, zodValidation,
                 result, resolved>>

\* lines 310-324: build the archive and return
ZipAndReturn ==
  /\ UNCHANGED <<routeVars, clockVars, uiVars, fetchVars, urlVars>>
  /\ pc = "zip"
  /\ result' = [returned |-> TRUE, files |-> fileNames,
                zipBlob |-> ZipOf(filesAfterZodFix(generatedFiles, fixedFiles)),
                validationReport |-> validationResult,
                typeCheckReport |-> generateValidationReport(zodValidation),
                zodValidation |-> zodValidation]
  /\ pc' = "done"
  /\ UNCHANGED <<domain, parsedContent, geminiEnabled, apiKey, fetch, geminiAnalysis,
                 aiSuggestions, generatedFiles, fileNames, fixedFiles, zodValidation,
                 validationResult, resolved>>

\* the steps the JavaScript runtime takes on its own
ProgramStep ==
  \/ DefaultSuggestions \/ AnalyzeDisabled \/ AnalyzeNoKey \/ AnalyzeCall
  \/ AnalyzeResume \/ StoreSuggestions \/ AddFile \/ ZodValidate \/ ImportValidate
  \/ ZipAndReturn

Next == ProgramStep \/ FetchSettles

Spec == Init /\ [][Next]_vars

\* the runtime always runs a ready continuation; the network owes nothing
FairSpec == Spec /\ WF_vars(ProgramStep)

\* ------------------------------------------- the validation engine alone
\* validateAndFixCodebase followed by validateImportsEnhanced, applied to
\* arbitrary artifact sets
SeqsFromTo(S, lo, hi) == UNION {[1..k -> S] : k \in lo..hi}

ButtonCallPool ==
  {Lit(ButtonSignature), Lit("buttonVariants({ variant, size })"),
   Lit("buttonVariants({variant,size})"), Lit("buttonVariants({ size, variant })"),
   Lit("buttonVariants(variant, size)")}
CardCallPool ==
  {Lit(CardSignature), Lit("cardVariants({ variant })"), Lit("cardVariants(variant)")}
InputCallPool ==
  {Lit(InputSignature), Lit("inputVariants({ size: inputSize })"), Lit("inputVariants({ size })"),
   Lit("inputVariants(inputSize)")}

RingPool ==
  {Ring(focus, shade, mods) :
     focus \in BOOLEAN, shade \in {500, 600}, mods \in SeqsUpTo({20, 30}, MaxMods)}

WidgetModule == Alias(<<"widgets", "Widget">>)
ImportPool ==
  {Import("{ Widget }", WidgetModule), Import("Widget", WidgetModule),
   Import("Footer", WidgetModule), Import("type { User }", WidgetModule),
   HelpersImport, ReactImport("React"), Import("{ Header }", <<".", "Header">>),
   Lit("export function")}

AboutPath == <<"src", "pages", "About", ".tsx">>
ThemeCssPath == <<"src", "styles", "theme", ".css">>

ComponentFiles ==
  {File(ButtonPath, c) : c \in SeqsFromTo(ButtonCallPool, 1, MaxLines)}
  \cup {File(CardPath, c) : c \in SeqsFromTo(CardCallPool, 1, MaxLines)}
  \cup {File(InputPath, c) : c \in SeqsFromTo(InputCallPool, 1, MaxLines)}

RingFiles == {File(ThemeCssPath, c) : c \in SeqsFromTo(RingPool, 1, MaxRingLines)}

ImportFiles == {File(AboutPath, c) : c \in SeqsFromTo(ImportPool, 1, 2)}

\* artifacts that may accompany the file under test
Companions ==
  {File(<<"src", "utils", "helpers", ".ts">>, <<Lit("export function")>>),
   File(<<"src", "components", "IconButton", ".tsx">>,
        <<Lit("buttonVariants({ variant, size })")>>),
   File(<<"src", "hooks", "useThing", ".ts">>, <<Ring(TRUE, 500, <<20>>)>>)}

ValInputs ==
  LET tested == ComponentFiles \cup RingFiles \cup ImportFiles
  IN {<<f>> : f \in tested}
     \cup {<<f, g>> : f \in tested, g \in Companions}
     \cup {<<g, f>> : f \in tested, g \in Companions}

ValContent ==
  [title |-> Lit("Acme"), description |-> Lit(""), navItems |-> <<>>, sections |-> <<>>,
   bodyContent |-> <<>>, hasAssets |-> FALSE, css |-> <<>>, aiSuggestions |-> JsUndefined]

InitVal ==
  /\ RouteIdle /\ ClockIdle /\ UiIdle /\ FetchIdle /\ UrlIdle
  /\ pc = "validate"
  /\ generatedFiles \in ValInputs
  /\ domain = "acme.io"
  /\ parsedContent = ValContent
  /\ geminiEnabled = FALSE
  /\ apiKey = FALSE
  /\ fetch = NoFetch
  /\ geminiAnalysis = Returned(JsUndefined)
  /\ aiSuggestions = JsUndefined
  /\ fileNames = <<>>
  /\ fixedFiles = <<>>
  /\ zodValidation = EmptyZod
  /\ validationResult = EmptyImports
  /\ result = NoResult
  /\ resolved = {}

\* the module path an error of the import-resolution pass names
ErrorPath(error) == SubSeq(error.error, 2, 1 + ((Len(error.error) - 3) \div 2))

\* the caller adds an artifact at a path matching a reported unresolved alias
\* import and runs the validation again
AddArtifact ==
  /\ UNCHANGED <<routeVars, clockVars, uiVars, fetchVars, urlVars>>
  /\ pc = "zip"
  /\ Cardinality(resolved) < MaxAdded
  /\ \E i \in 1..Len(validationResult.errors) :
       LET error == validationResult.errors[i]
           path == ErrorPath(error)
       IN /\ path[1] = "@"
          /\ \E suffix \in {<<".ts">>, <<".tsx">>, <<"index", ".ts">>} :
               generatedFiles' = Append(generatedFiles,
                                        File(<<"src">> \o Tail(path) \o suffix,
                                             <<Lit("export function")>>))
          /\ resolved' = resolved \cup {[file |-> error.file, path |-> path]}
  /\ pc' = "validate"
  /\ UNCHANGED <<domain, parsedContent, geminiEnabled, apiKey, fetch, geminiAnalysis,
                 aiSuggestions, fileNames, fixedFiles, zodValidation, validationResult,
                 result>>

NextVal == ZodValidate \/ ImportValidate \/ AddArtifact

SpecVal == InitVal /\ [][NextVal]_vars

\* ---------------------------------- validateAndFixCodebase, applied twice
\* the caller hands the artifacts the call returned to validateAndFixCodebase
\* again
FixAgain ==
  /\ pc = "imports"
  /\ prevReport = <<>>
  /\ prevFiles' = fixedFiles
  /\ prevReport' = <<zodValidation>>
  /\ generatedFiles' = fixedFiles
  /\ pc' = "validate"
  /\ UNCHANGED <<clock, domain, parsedContent, geminiEnabled, apiKey, fetch, geminiAnalysis,
                 aiSuggestions, fileNames, fixedFiles, zodValidation, validationResult, result,
                 resolved, routeVars, uiVars, fetchVars, urlVars>>

NextFix == ZodValidate \/ FixAgain

SpecFix == InitVal /\ [][NextFix]_vars

\* ------------------------------------------------- route.ts: POST handler
\* an inner catch that reports the failure as a server error
FetchErrorAsServerError(requestDomain) == JsonResponse(500, FALSE, <<>>)

\* the answer of the inner catch (lines 134-141); generateMockContent throwing
\* inside it is caught by the outer catch (lines 143-147)
FetchErrorResponse(requestDomain) ==
  LET content == generateMockContent(requestDomain)
  IN IF content.threw THEN JsonResponse(500, FALSE, <<>>)
     ELSE JsonResponse(200, FALSE, content.value)

\* lines 109-116: read the body, reject a request without domain
ReceivePost ==
  /\ pc = "post"
  /\ IF request.kind = "badjson"
     THEN response' = JsonResponse(500, FALSE, <<>>) /\ pc' = "responded"
     ELSE IF DomainFalsy(request)
     THEN response' = JsonResponse(400, FALSE, <<>>) /\ pc' = "responded"
     ELSE response' = response /\ pc' = "crawl"
  /\ UNCHANGED <<domain, parsedContent, geminiEnabled, apiKey, fetch, geminiAnalysis,
                 aiSuggestions, generatedFiles, fileNames, fixedFiles, zodValidation,
                 validationResult, result, resolved, request, crawl, crawledAssets, clockVars,
                 uiVars, fetchVars, urlVars>>

\* lines 118-122: await crawlAndFetchAssets(domain)
CrawlStep ==
  /\ pc = "crawl"
  /\ LET assets == crawlAndFetchAssets(request.domain, crawl)
     IN IF assets.threw
        THEN crawledAssets' = crawledAssets /\ pc' = "mock"
        ELSE crawledAssets' = assets.value /\ pc' = "parse"
  /\ UNCHANGED <<domain, parsedContent, geminiEnabled, apiKey, fetch, geminiAnalysis,
                 aiSuggestions, generatedFiles, fileNames, fixedFiles, zodValidation,
                 validationResult, result, resolved, request, crawl, response, clockVars,
                 uiVars, fetchVars, urlVars>>

\* lines 125-133: parseWebsiteContent(html, domain, crawledAssets) and the answer
ParseStep ==
  /\ pc = "parse"
  /\ LET content == parseWebsiteContent(crawledAssets[1].html, request.domain, crawledAssets[1])
     IN IF content.threw
        THEN response' = response /\ pc' = "mock"
        ELSE response' = JsonResponse(200, TRUE, content.value) /\ pc' = "responded"
  /\ UNCHANGED <<domain, parsedContent, geminiEnabled, apiKey, fetch, geminiAnalysis,
                 aiSuggestions, generatedFiles, fileNames, fixedFiles, zodValidation,
                 validationResult, result, resolved, request, crawl, crawledAssets, clockVars,
                 uiVars, fetchVars, urlVars>>

\* lines 134-141, the inner catch; an exception in it reaches lines 143-147
MockStep ==
  /\ pc = "mock"
  /\ response' = FetchErrorResponse(request.domain)
  /\ pc' = "responded"
  /\ UNCHANGED <<domain, parsedContent, geminiEnabled, apiKey, fetch, geminiAnalysis,
                 aiSuggestions, generatedFiles, fileNames, fixedFiles, zodValidation,
                 validationResult, result, resolved, request, crawl, crawledAssets, clockVars,
                 uiVars, fetchVars, urlVars>>

\* everything generateCodebase and the validation engine own, at rest
GeneratorIdle ==
  /\ domain = "acme.io"
  /\ parsedContent = ValContent
  /\ geminiEnabled = FALSE
  /\ apiKey = FALSE
  /\ fetch = NoFetch
  /\ geminiAnalysis = Returned(JsUndefined)
  /\ aiSuggestions = JsUndefined
  /\ generatedFiles = <<>>
  /\ fileNames = <<>>
  /\ fixedFiles = <<>>
  /\ zodValidation = EmptyZod
  /\ validationResult = EmptyImports
  /\ result = NoResult
  /\ resolved = {}

Acme == << <<"a", "c", "m", "e">>, <<"i", "o">> >>

DomainPool ==
  {Dom("string", Acme), Dom("string", << <<"x">> >>),
   Dom("string", << <<"M", "e">>, <<"c", "o">>, <<"i", "o">> >>),
   Dom("string", << <<>>, <<"i", "o">> >>), Dom("string", << <<"9", "a">>, <<"i", "o">> >>),
   Dom("string", << <<>> >>), Dom("number", << <<"4", "2">> >>), Dom("number", << <<"0">> >>)}

Requests ==
  {[kind |-> "badjson", domain |-> Dom("string", << <<>> >>)],
   [kind |-> "absent", domain |-> Dom("string", << <<>> >>)]}
  \cup {[kind |-> "json", domain |-> d] : d \in DomainPool}

EmptyMarkup == Markup(<<>>, "none", <<>>, <<>>, <<>>)

\* a page with a title, a header with two anchors, an image and a section
SmallMarkup ==
  Markup(<<"Acme Inc">>, "header",
         <<[text |-> AnchorText("ok", 1), href |-> <<Url("root-relative", "", <<"page", 1>>)>>,
            ariaLabel |-> <<>>],
           [text |-> AnchorText("empty", 2), href |-> <<>>, ariaLabel |-> <<>>]>>,
         <<[src |-> Url("relative", "", <<"img", 1>>), alt |-> "", section |-> ""]>>,
         <<[heading |-> "Pricing", long |-> TRUE, words |-> {"Pricing"}, cards |-> 1]>>)

\* what the crawler finds: markup or none, stylesheet and inline-style lists or none
PagePool ==
  {[html |-> h, cssFiles |-> c, inlineStyles |-> i] :
     h \in {<<>>, <<EmptyMarkup>>, <<SmallMarkup>>},
     c \in {<<>>, << <<>> >>,
            << <<[url |-> "main.css", content |-> <<Decl("--accent", "#112233")>>]>> >>},
     i \in {<<>>, << <<>> >>}}

CrawlPool ==
  {[python |-> p, node |-> n, page |-> <<page>>] :
     p \in {"throws", "error", "ok"}, n \in {"throws", "ok"}, page \in PagePool}

InitRoute ==
  /\ pc = "post"
  /\ request \in Requests
  /\ crawl \in CrawlPool
  /\ crawledAssets = <<>>
  /\ response = [status |-> 0]
  /\ GeneratorIdle /\ ClockIdle /\ UiIdle /\ FetchIdle /\ UrlIdle

NextRoute == ReceivePost \/ CrawlStep \/ ParseStep \/ MockStep

SpecRoute == InitRoute /\ [][NextRoute]_vars

\* ------------------------------------- route.ts: parseWebsiteContent alone
\* parseWebsiteContent applied to arbitrary markup and asset bundles
\* n anchors in a nav element: anchor badAt has a text the acceptance test
\* rejects, anchor dupAt repeats anchor 1 (written with a relative href; with
\* another aria-label when dupAt is odd), the others are pairwise distinct
NavAnchors(n, dupAt, badAt) ==
  [i \in 1..n |->
     IF i = badAt
     THEN [text |-> AnchorText(CASE i % 3 = 0 -> "empty" [] i % 3 = 1 -> "long"
                                 [] OTHER -> "multiline", i),
           href |-> <<Url("root-relative", "", <<"page", i>>)>>, ariaLabel |-> <<>>]
     ELSE IF i = dupAt /\ i > 1
     THEN [text |-> AnchorText("ok", 1), href |-> <<Url("relative", "", <<"page", 1>>)>>,
           ariaLabel |-> IF i % 2 = 1 THEN <<"Start">> ELSE <<>>]
     ELSE [text |-> AnchorText("ok", i),
           href |-> IF i % 5 = 0 THEN <<>> ELSE <<Url("root-relative", "", <<"page", i>>)>>,
           ariaLabel |-> IF i % 4 = 0 THEN <<"Menu">> ELSE <<>>]]

\* n img elements; per pattern some have a data URI, no src, or a src that
\* holds "data:" further in
ImgList(n, pattern) ==
  [i \in 1..n |->
     [src |-> CASE pattern = 2 /\ i = 2 -> Url("data", "", <<"image/png", i>>)
                [] pattern = 3 /\ i % 3 = 0 -> Url("data", "", <<"image/png", i>>)
                [] pattern = 3 /\ i % 4 = 0 -> Url("empty", "", <<"", 0>>)
                [] pattern = 3 /\ i % 5 = 0 -> Url("root-relative", "", <<"cb?next=data:", i>>)
                [] pattern = 3 /\ i % 7 = 0 -> Url("protocol-relative", "cdn.io", <<"img", i>>)
                [] OTHER -> Url("relative", "", <<"img", i>>),
      alt |-> IF i % 2 = 0 THEN "Photo" ELSE "",
      section |-> IF i % 3 = 1 THEN "hero-section" ELSE ""]]

WordPool ==
  {"testimonial", "quote", "pricing", "plan", "planet", "faq", "question", "contact",
   "form", "information", "Pricing", "welcome"}

WordSets == {ws \in SUBSET WordPool : Cardinality(ws) <= MaxWords}

SectionCandidates ==
  {before \o <<[heading |-> h, long |-> TRUE, words |-> ws, cards |-> c]>> :
     before \in {<<>>, <<[heading |-> "", long |-> FALSE, words |-> {}, cards |-> 0]>>},
     h \in {"Pricing", ""}, ws \in WordSets, c \in 0..1}

CssTokens ==
  {Decl(name, value) :
     name \in {"--accent", "--ACCENT", "--accent-foreground", "--primary", "--secondary", "color"},
     value \in {"#112233", "#0a0b0c", "rgb(1, 2, 3)", "var(--accent)", "-1px"}}
  \cup {CssText("}")}

Bundle(html, cssFiles, inlineStyles) ==
  [html |-> html, cssFiles |-> cssFiles, jsFiles |-> << <<>> >>,
   inlineStyles |-> inlineStyles, inlineScripts |-> << <<>> >>]

ExtractInputs ==
  \* navigation
  {Bundle(<<Markup(<<>>, "nav", NavAnchors(n, d, b), <<>>, <<>>)>>, << <<>> >>, << <<>> >>) :
     n \in 0..MaxAnchors, d \in 0..MaxAnchors, b \in 0..MaxAnchors}
  \* images
  \cup {Bundle(<<Markup(<<"Gallery">>, "none", <<>>, ImgList(n, pattern), <<>>)>>,
               << <<>> >>, << <<>> >>) : n \in 0..MaxImgs, pattern \in 1..3}
  \* sections
  \cup {Bundle(<<Markup(<<>>, "header", <<>>, <<>>, cands)>>, << <<>> >>, << <<>> >>) :
          cands \in SectionCandidates}
  \* stylesheets and inline styles
  \cup {Bundle(<<EmptyMarkup>>, << <<[url |-> "main.css", content |-> css]>> >>, << <<>> >>) :
          css \in SeqsUpTo(CssTokens, MaxCss)}
  \cup {Bundle(<<EmptyMarkup>>, << <<[url |-> "main.css", content |-> <<a>>]>> >>,
               << <<<<b>>>> >>) : a \in CssTokens, b \in CssTokens}
  \* empty and partial bundles
  \cup {Bundle(h, c, i) :
          h \in {<<>>, <<EmptyMarkup>>,
                 <<Markup(<<>>, "none", <<>>, <<>>,
                          <<[heading |-> "", long |-> FALSE, words |-> {"welcome"}, cards |-> 0]>>)>>},
          c \in {<<>>, << <<>> >>}, i \in {<<>>, << <<>> >>}}

InitExtract ==
  /\ pc = "parse"
  /\ request = [kind |-> "json", domain |-> Dom("string", Acme)]
  /\ crawl = [python |-> "none", node |-> "none", page |-> <<>>]
  /\ crawledAssets \in {<<b>> : b \in ExtractInputs}
  /\ response = [status |-> 0]
  /\ GeneratorIdle /\ ClockIdle /\ UiIdle /\ FetchIdle /\ UrlIdle

NextExtract == ParseStep \/ MockStep

SpecExtract == InitExtract /\ [][NextExtract]_vars

\* ---------------------------------------- generateCodebase, called twice
Years == {2026, 2027}

\* ContentModels with the SuggestionSet attached (lines 65-79)
RepeatContents ==
  UNION {{[c EXCEPT !.aiSuggestions = s] :
            s \in {getDefaultStructureSuggestions(c), AdvisorAnalysis(Len(c.sections))}} :
         c \in {m \in ContentModels : m.css = <<>> /\ m.navItems # <<>>}}

InitRepeat ==
  /\ RouteIdle /\ UiIdle /\ FetchIdle /\ UrlIdle
  /\ clock \in Years
  /\ prevFiles = <<>>
  /\ prevReport = <<>>
  /\ pc = "emit"
  /\ domain \in Domains
  /\ parsedContent \in RepeatContents
  /\ aiSuggestions = parsedContent.aiSuggestions
  /\ geminiEnabled = FALSE
  /\ apiKey = FALSE
  /\ fetch = NoFetch
  /\ geminiAnalysis = Returned(JsUndefined)
  /\ generatedFiles = <<>>
  /\ fileNames = <<>>
  /\ fixedFiles = <<>>
  /\ zodValidation = EmptyZod
  /\ validationResult = EmptyImports
  /\ result = NoResult
  /\ resolved = {}

\* a second call with the same arguments, at any later time: lines 46-47 start
\* from empty arrays
RunAgain ==
  /\ pc = "validate"
  /\ prevFiles = <<>>
  /\ prevFiles' = generatedFiles
  /\ prevReport' = prevReport
  /\ generatedFiles' = <<>>
  /\ fileNames' = <<>>
  /\ clock' \in Years
  /\ pc' = "emit"
  /\ UNCHANGED <<domain, parsedContent, geminiEnabled, apiKey, fetch, geminiAnalysis,
                 aiSuggestions, fixedFiles, zodValidation, validationResult, result, resolved,
                 routeVars, uiVars, fetchVars, urlVars>>

NextRepeat == AddFile \/ RunAgain

SpecRepeat == InitRepeat /\ [][NextRepeat]_vars

\* ------------------------------- generateCodebase: synthesis and the fix
\* bodyContent absent, empty, blank, and on either side of the threshold with
\* and without surrounding whitespace
BodyPool ==
  {<<>>, <<Body(0, 0)>>, <<Body(BodyThreshold + 50, 0)>>, <<Body(0, BodyThreshold)>>,
   <<Body(20, BodyThreshold)>>, <<Body(0, BodyThreshold + 1)>>, <<Body(4, BodyThreshold + 1)>>}

SynthesisContents ==
  UNION {{[c EXCEPT !.bodyContent = body, !.aiSuggestions = getDefaultStructureSuggestions(c)] :
            body \in BodyPool} :
         c \in {m \in ContentModels : m.css = <<>>}}

InitSynthesis ==
  /\ RouteIdle /\ ClockIdle /\ UiIdle /\ FetchIdle /\ UrlIdle
  /\ pc = "emit"
  /\ domain \in Domains
  /\ parsedContent \in SynthesisContents
  /\ aiSuggestions = parsedContent.aiSuggestions
  /\ geminiEnabled = FALSE
  /\ apiKey = FALSE
  /\ fetch = NoFetch
  /\ geminiAnalysis = Returned(JsUndefined)
  /\ generatedFiles = <<>>
  /\ fileNames = <<>>
  /\ fixedFiles = <<>>
  /\ zodValidation = EmptyZod
  /\ validationResult = EmptyImports
  /\ result = NoResult
  /\ resolved = {}

NextSynthesis == AddFile \/ ZodValidate

SpecSynthesis == InitSynthesis /\ [][NextSynthesis]_vars

\* ------------------------------------------------ route.ts: fetchAllFiles
\* what the network and the body do for one URL: the fetch rejects, answers
\* with a non-OK status, or answers OK with an empty body, a script, a
\* stylesheet, a stylesheet whose URL rewriteCssUrls cannot parse, or a body
\* whose read rejects
FetchKinds == {"rejects", "notOk", "okEmpty", "ok", "okCss", "rewriteThrows", "textRejects"}

\* the promise of urls.map(async (url) => ...) for the i-th URL, just created
Request(i, kind) ==
  [url |-> i, kind |-> kind, at |-> "fetch", status |-> "pending", content |-> <<>>, order |-> 0]

\* the async function returns { url, content }: its promise fulfils
Fulfil(req, content, order) ==
  [req EXCEPT !.at = "settled", !.status = "fulfilled", !.content = content, !.order = order]

Settled(reqs) == {i \in 1..Len(reqs) : reqs[i].at = "settled"}

\* lines 292-296: await fetch(url); a rejection is caught (line 309), a non-OK
\* answer returns the empty content (line 308)
ResponseArrives ==
  /\ \E i \in 1..Len(requests) :
       /\ requests[i].at = "fetch"
       /\ requests' = [requests EXCEPT ![i] =
            IF requests[i].kind \in {"rejects", "notOk"}
            THEN Fulfil(requests[i], <<>>, Cardinality(Settled(requests)) + 1)
            ELSE [requests[i] EXCEPT !.at = "body"]]
  /\ UNCHANGED <<fetchedFiles, uiVars, urlVars, routeVars, clockVars, pc, domain, parsedContent,
                 geminiEnabled, apiKey, fetch, geminiAnalysis, aiSuggestions, generatedFiles,
                 fileNames, fixedFiles, zodValidation, validationResult, result, resolved>>

\* lines 298-306: await response.text(), then rewriteCssUrls for a stylesheet;
\* whatever either throws is caught (line 309)
BodyRead ==
  /\ \E i \in 1..Len(requests) :
       /\ requests[i].at = "body"
       /\ requests' = [requests EXCEPT ![i] =
            Fulfil(requests[i],
                   CASE requests[i].kind = "ok" -> <<"body", i>>
                     [] requests[i].kind = "okCss" -> <<"rewritten", "body", i>>
                     [] OTHER -> <<>>,
                   Cardinality(Settled(requests)) + 1)]
  /\ UNCHANGED <<fetchedFiles, uiVars, urlVars, routeVars, clockVars, pc, domain, parsedContent,
                 geminiEnabled, apiKey, fetch, geminiAnalysis, aiSuggestions, generatedFiles,
                 fileNames, fixedFiles, zodValidation, validationResult, result, resolved>>

\* the values listed in the order in which the promises settled
ResultsInSettleOrder(reqs) ==
  LET bySettle == [k \in 1..Len(reqs) |-> reqs[CHOOSE i \in 1..Len(reqs) : reqs[i].order = k]]
      fulfilled == SelectSeq(bySettle, LAMBDA r : r.status = "fulfilled")
      values == [i \in 1..Len(fulfilled) |->
                   [url |-> fulfilled[i].url, content |-> fulfilled[i].content]]
  IN SelectSeq(values, LAMBDA v : Len(v.content) > 0)

\* lines 314-317: the fulfilled results, their values, those with content
ResultsOf(reqs) ==
  LET fulfilled == SelectSeq(reqs, LAMBDA r : r.status = "fulfilled")
      values == [i \in 1..Len(fulfilled) |->
                   [url |-> fulfilled[i].url, content |-> fulfilled[i].content]]
  IN SelectSeq(values, LAMBDA v : Len(v.content) > 0)

\* Promise.allSettled resolves once every promise has settled
AllSettled ==
  /\ fetchedFiles = <<>>
  /\ Settled(requests) = 1..Len(requests)
  /\ fetchedFiles' = <<ResultsOf(requests)>>
  /\ UNCHANGED <<requests, uiVars, urlVars, routeVars, clockVars, pc, domain, parsedContent,
                 geminiEnabled, apiKey, fetch, geminiAnalysis, aiSuggestions, generatedFiles,
                 fileNames, fixedFiles, zodValidation, validationResult, result, resolved>>

InitFetchAll ==
  /\ requests \in UNION {{[i \in 1..n |-> Request(i, kinds[i])] : kinds \in [1..n -> FetchKinds]} :
                          n \in 0..MaxUrls}
  /\ fetchedFiles = <<>>
  /\ pc = "fetchAll"
  /\ RouteIdle /\ GeneratorIdle /\ ClockIdle /\ UiIdle /\ UrlIdle

NextFetchAll == ResponseArrives \/ BodyRead \/ AllSettled

SpecFetchAll == InitFetchAll /\ [][NextFetchAll]_vars

\* ------------------------------------------------- route.ts: normalizeUrl
\* beginnings of URL texts: each case of normalizeUrl, near misses of each, and
\* other schemes
UrlPrefixes ==
  {<<>>, DataPrefix, HttpPrefix, HttpsPrefix, <<"/", "/">>, <<"/">>,
   <<"h", "t", "t", "p", ":", "/">>, <<"H", "T", "T", "P", ":", "/", "/">>,
   <<"d", "a", "t", "a">>, <<"#">>, <<" ", "/">>, <<"m", "a", "i", "l", "t", "o", ":">>}

UrlPool ==
  {prefix \o tail : prefix \in UrlPrefixes, tail \in SeqsUpTo({"a", "/", ":"}, MaxUrlTail)}

InitUrl ==
  /\ urlArgs \in {<<[url |-> u, domain |-> d]>> : u \in UrlPool, d \in {Acme, << <<"x">> >>}}
  /\ normalized = <<>>
  /\ pc = "normalize"
  /\ RouteIdle /\ GeneratorIdle /\ ClockIdle /\ UiIdle /\ FetchIdle

\* normalizeUrl(url, domain), then normalizeUrl of the result
NormalizeUrl ==
  /\ Len(normalized) < 2
  /\ normalized' = Append(normalized,
                          normalizeUrlChars(IF normalized = <<>> THEN urlArgs[1].url
                                            ELSE normalized[1], urlArgs[1].domain))
  /\ UNCHANGED <<urlArgs, uiVars, fetchVars, routeVars, clockVars, pc, domain, parsedContent,
                 geminiEnabled, apiKey, fetch, geminiAnalysis, aiSuggestions, generatedFiles,
                 fileNames, fixedFiles, zodValidation, validationResult, result, resolved>>

NextUrl == NormalizeUrl

SpecUrl == InitUrl /\ [][NextUrl]_vars

\* ------------------------------ components/codebase-generator.tsx: the page
\* The text of the domain input is an optional scheme, a host and a tail; the
\* host "example.com" matches the regular expression of validateDomain, the
\* host "exa mple" and the empty host do not. ui.at is where the running handleGenerate is
\* suspended: "rest" (no run), "post", "delay1", "generate", "delay2".
otherThanUi ==
  <<pc, domain, parsedContent, geminiEnabled, apiKey, fetch, geminiAnalysis, aiSuggestions,
    generatedFiles, fileNames, fixedFiles, zodValidation, validationResult, result, resolved,
    routeVars, clockVars, fetchVars, urlVars>>

\* line 114
isProcessing == ui.status \in {"fetching", "analyzing", "generating", "zipping"}

TypedText(scheme, host, tail) == [scheme |-> scheme, host |-> host, tail |-> tail]

DomainTexts ==
  {TypedText(scheme, host, tail) :
     scheme \in {"", "https://"}, host \in {"", "example.com", "exa mple"},
     tail \in {"", "/", "/about"}}

NoText == TypedText("", "", "")

\* lines 45-49: the scheme, a trailing slash and any path are removed
cleanDomain(text) == text.host

\* lines 39-42
validateDomain(input) == input = "example.com"

InvalidDomainMessage == "Please enter a valid domain (e.g., example.com)"

\* the catch of lines 100-103
RunFails(message) ==
  [ui EXCEPT !.error = <<message>>, !.status = "error", !.at = "rest",
             !.post = "none", !.generation = "none"]

\* lines 44-71, up to the first await
handleGenerate ==
  IF ~validateDomain(cleanDomain(ui.domain))
  THEN [ui EXCEPT !.error = <<InvalidDomainMessage>>]
  ELSE [ui EXCEPT !.error = <<>>, !.generatedFiles = <<>>, !.wasAccessible = <<>>,
                  !.status = "fetching", !.post = "pending", !.at = "post"]

\* lines 106-111
handleReset ==
  [ui EXCEPT !.status = "idle", !.error = <<>>, !.generatedFiles = <<>>, !.wasAccessible = <<>>]

\* lines 150-151: onChange of the input, which is disabled while processing
SetDomain ==
  /\ ~isProcessing
  /\ \E text \in DomainTexts : text # ui.domain /\ ui' = [ui EXCEPT !.domain = text]
  /\ UNCHANGED otherThanUi

\* lines 153-157: Enter in the input
PressEnter ==
  /\ ~isProcessing
  /\ ui' = handleGenerate
  /\ UNCHANGED otherThanUi

\* lines 161-162: the button, disabled while processing and while idle with a
\* blank input; it resets after a run and generates otherwise
ClickButton ==
  /\ ~(isProcessing \/ (ui.domain = NoText /\ ui.status = "idle"))
  /\ ui' = IF ui.status \in {"complete", "error"} THEN handleReset ELSE handleGenerate
  /\ UNCHANGED otherThanUi

\* the POST to /api/fetch-website settles (the network need never do so): it
\* rejects, or answers with a status and a body
PostSettles ==
  /\ ui.post = "pending"
  /\ \E outcome \in {"rejected", "notOk", "badJson", "accessible", "mock"} :
       ui' = [ui EXCEPT !.post = outcome]
  /\ UNCHANGED otherThanUi

\* lines 64-77: handleGenerate resumes after the fetch
AfterPost ==
  /\ ui.at = "post" /\ ui.post \notin {"none", "pending"}
  /\ ui' = CASE ui.post = "rejected" -> RunFails("Failed to fetch")
             [] ui.post = "notOk" -> RunFails("Failed to analyze website")
             [] ui.post = "badJson" -> RunFails("Unexpected token")
             [] OTHER -> [ui EXCEPT !.wasAccessible = <<ui.post = "accessible">>,
                                    !.status = "analyzing", !.at = "delay1", !.post = "none"]
  /\ UNCHANGED otherThanUi

\* lines 78-81: the 600 ms timer fires and generateCodebase is called; it
\* first awaits the advisor when that is enabled with a key
\* (lib/codebase-generator.tsx lines 62-66), else it starts writing files
AnalyzeDelayOver ==
  /\ ui.at = "delay1"
  /\ \E first \in {"advisor", "emitting"} :
       ui' = [ui EXCEPT !.status = "generating", !.at = "generate", !.generation = first]
  /\ UNCHANGED otherThanUi

\* the advisor's request settles either way and generateCodebase goes on (the
\* request carries no timeout and need never settle)
AdvisorSettles ==
  /\ ui.generation = "advisor"
  /\ ui' = [ui EXCEPT !.generation = "emitting"]
  /\ UNCHANGED otherThanUi

\* lib/codebase-generator.tsx lines 49-53: the onProgress callback of an addFile call
ReportProgress ==
  /\ ui.at = "generate" /\ ui.generation = "emitting" /\ ui.generatedFiles = <<>>
  /\ ui' = [ui EXCEPT !.generatedFiles = <<"package.json">>]
  /\ UNCHANGED otherThanUi

\* generateCodebase, past the advisor, runs through its timers and resolves,
\* or rejects when a step throws
GenerationSettles ==
  /\ ui.generation = "emitting"
  /\ \E outcome \in {"resolved", "rejected"} : ui' = [ui EXCEPT !.generation = outcome]
  /\ UNCHANGED otherThanUi

\* lines 81-85: handleGenerate resumes after generateCodebase
AfterGenerate ==
  /\ ui.at = "generate" /\ ui.generation \in {"resolved", "rejected"}
  /\ ui' = IF ui.generation = "rejected" THEN RunFails("An unexpected error occurred")
           ELSE [ui EXCEPT !.status = "zipping", !.at = "delay2", !.generation = "none"]
  /\ UNCHANGED otherThanUi

\* lines 86-99: the 400 ms timer fires, the download is triggered (the DOM
\* calls may throw) and the run completes
ZipDelayOver ==
  /\ ui.at = "delay2"
  /\ \/ ui' = [ui EXCEPT !.generatedFiles = <<"package.json", "README.md">>,
                         !.status = "complete", !.at = "rest"]
     \/ ui' = RunFails("An unexpected error occurred")
  /\ UNCHANGED otherThanUi

InitUi ==
  /\ UiIdle
  /\ pc = "page"
  /\ RouteIdle /\ GeneratorIdle /\ ClockIdle /\ FetchIdle /\ UrlIdle

\* the steps of the page's own code
UiStep == AfterPost \/ AnalyzeDelayOver \/ GenerationSettles \/ AfterGenerate \/ ZipDelayOver

NextUi ==
  SetDomain \/ PressEnter \/ ClickButton \/ PostSettles \/ AdvisorSettles \/ ReportProgress
    \/ UiStep

SpecUi == InitUi /\ [][NextUi]_vars

\* the runtime runs every ready continuation and fires every timer; the two
\* network requests owe nothing
FairSpecUi == SpecUi /\ WF_vars(UiStep)

\* ----------------------------------------------------- claims: the advisor
\* the advisor step of the current run is over
PastAdvisor == pc \in {"emit", "validate", "imports", "zip", "done"}

\* the advisor answered, and its answer lacks the pages/sections/components/
\* insights schema or is not JSON at all
HasSchema(v) ==
  v.t = "obj" /\ v.pages # <<>> /\ v.sections # <<>> /\ v.components # <<>> /\ v.insights # <<>>

MalformedAnswer ==
  /\ geminiEnabled /\ apiKey
  /\ fetch.state = "resolved" /\ fetch.ok /\ fetch.bodyIsJson
  /\ \/ fetch.text = <<>>
     \/ fetch.text # <<>> /\ (~fetch.text[1].json \/ ~HasSchema(fetch.text[1].value))

\* the advisor is disabled, has no key, or its call threw (rejected fetch,
\* non-OK status, unreadable body)
AdvisorFailed ==
  \/ ~geminiEnabled
  \/ ~apiKey
  \/ fetch.state \in {"rejected", "resolved"} /\ callGeminiAPI(fetch).threw

\* C1: every run of generateCodebase gets past the Structure Advisor step and
\* returns, even when the advisor's HTTP call never completes (the call is
\* bounded by a timeout).
C1_AdvisorNeverBlocks == (pc = "start") ~> (pc = "done")

\* C2: when the advisor is enabled and its response is malformed, the
\* suggestions attached to the ContentModel are the default suggestions.
C2_MalformedIsAbsent ==
  (PastAdvisor /\ MalformedAnswer)
    => parsedContent.aiSuggestions = getDefaultStructureSuggestions(parsedContent)

\* C3: when the advisor is disabled, has no API key, or its call throws or
\* returns a non-OK status, analyzeWebsiteStructure returns null without
\* throwing, the run continues with the default suggestions, and the run returns.
C3_AdvisorFailureFallsBack ==
  /\ (pc \in {"analyzed"} \cup {"emit", "validate", "imports", "zip", "done"} /\ AdvisorFailed)
       => geminiAnalysis = Returned(JsNull)
  /\ (PastAdvisor /\ AdvisorFailed)
       => /\ aiSuggestions = getDefaultStructureSuggestions(parsedContent)
          /\ parsedContent.aiSuggestions = aiSuggestions
  /\ (pc = "done" /\ AdvisorFailed) => result.returned

C3_Witness ==
  /\ pc = "done" /\ result.returned
  /\ geminiEnabled /\ apiKey /\ fetch.state = "resolved" /\ ~fetch.ok

\* the artifacts synthesis and auto-fix yield for the ContentModel when no
\* suggestions at all are attached to it
ArtifactsWithoutAdvisor ==
  autoFixGeneratedCode(
    ArtifactPlan(domain, [parsedContent EXCEPT !.aiSuggestions = JsUndefined]))

C5_PackagingAlways ==
  /\ pc = "imports" => fixedFiles = autoFixGeneratedCode(generatedFiles)
  /\ pc = "zip" => validationResult = validateImportsEnhanced(fixedFiles)
  /\ pc = "done" =>
       /\ result.returned
       /\ result.files = fileNames
       /\ DOMAIN result.zipBlob = Range(fileNames)
       /\ Cardinality(DOMAIN result.zipBlob) = Len(fileNames)
       /\ \A i \in 1..Len(fileNames) :
             result.zipBlob[fileNames[i]] = autoFixGeneratedCode(generatedFiles)[i].content
       /\ result.zodValidation = validateGeneratedCodebase(fixedFiles)
       /\ result.validationReport = validationResult

C5_Witness ==
  /\ pc = "done" /\ result.returned
  /\ ~result.zodValidation.isValid
  /\ ~result.validationReport.isValid
  /\ fixedFiles # generatedFiles

\* ------------------------------------------- claims: import resolution
ImportsReported == pc \in {"zip", "done"}

\* C6: an import whose path starts with an allow-listed package prefix never
\* produces an error in the report of validateImportsEnhanced.
C6_SafeImportsNeverReported ==
  ImportsReported =>
    \A i \in 1..Len(validationResult.errors) :
       ~isSafeImport(ErrorPath(validationResult.errors[i]))

\* C7: the import-resolution pass on the synthesized artifacts, after auto-fix,
\* reports no unresolved import (isValid is true).
C7_SynthesizedImportsResolve ==
  (ImportsReported /\ Len(fileNames) > 0) => validationResult.isValid

\* the import statements of a file text
ImportLines(content) == SelectSeq(content, LAMBDA tok : tok.k = "import")

\* the artifact set holds exactly one import statement, it is in file A, its
\* path is '@/'-aliased and no artifact of the set matches it
OneMissingAliasImport(files, A) ==
  /\ A \in 1..Len(files)
  /\ Len(ImportLines(files[A].content)) = 1
  /\ \A j \in 1..Len(files) : j # A => ImportLines(files[j].content) = <<>>
  /\ ImportLines(files[A].content)[1].p[1] = "@"
  /\ ~fileExists(ImportLines(files[A].content)[1].p, ToFileMap(files))

\* C8: if artifact A contains one import of an '@/'-aliased path that matches
\* no artifact, validation reports exactly one error, for file A and naming the
\* path; once an artifact is added at a matching path and validation is rerun,
\* no error for that import remains.
C8_OneErrorPerMissingAlias ==
  pc = "zip" =>
    /\ \A A \in 1..Len(fixedFiles) :
         OneMissingAliasImport(fixedFiles, A) =>
           LET path == ImportLines(fixedFiles[A].content)[1].p
           IN validationResult.errors =
                <<ValidationError(fixedFiles[A].path, CannotFindModule(path, path))>>
    /\ \A r \in resolved :
         \A i \in 1..Len(validationResult.errors) :
            ~(validationResult.errors[i].file = r.file
              /\ ErrorPath(validationResult.errors[i]) = r.path)

\* -------------------------------------- claims: signature/pattern pass
ZodReported == pc \in {"imports", "zip"}

\* the object-argument calls the catalogue rewrites, per component
ObjectCallsOf(file) ==
  (IF IsButtonFile(file)
   THEN {"buttonVariants({ variant, size })", "buttonVariants({variant,size})"} ELSE {})
  \cup (IF IsCardFile(file) THEN {"cardVariants({ variant })", "cardVariants({variant})"} ELSE {})
  \cup (IF IsInputFile(file)
        THEN {"inputVariants({ size: inputSize })", "inputVariants({size: inputSize})",
              "inputVariants({ size })"} ELSE {})

\* C9: when Button.tsx, Card.tsx or Input.tsx calls its variants helper with a
\* single object argument, once or several times, the artifacts returned by
\* validateAndFixCodebase hold no occurrence of that literal call, and validating
\* them reports no signature error.
C9_ObjectCallsRemoved ==
  ZodReported =>
    /\ \A i \in 1..Len(fixedFiles) :
         \A call \in ObjectCallsOf(fixedFiles[i]) : ~Includes(fixedFiles[i].content, call)
    /\ validateComponentSignatures(fixedFiles) = <<>>

\* a line that is an instance of a catalogued defect: an object-argument call
\* of a variants helper, or a ring-primary class with an opacity modifier
DefectLine(tok) ==
  \/ LineHas(tok, "buttonVariants({") \/ LineHas(tok, "cardVariants({")
  \/ LineHas(tok, "inputVariants({")
  \/ tok.k = "ring" /\ Len(tok.m) > 0

\* C10: after validateAndFixCodebase, every instance of a catalogued defect
\* still present in a returned artifact has an error entry in the report that
\* names that artifact.
C10_SurvivorsReported ==
  ZodReported =>
    \A i \in 1..Len(fixedFiles) :
       (\E l \in 1..Len(fixedFiles[i].content) : DefectLine(fixedFiles[i].content[l]))
         => \E e \in 1..Len(zodValidation.errors) :
               zodValidation.errors[e].file = fixedFiles[i].path

\* ------------------------------------- claims: import pass, frame effect
\* C11: the import-resolution pass leaves the artifact set as it was: the step
\* that runs it changes neither the artifacts it was handed (paths, texts,
\* number, order) nor the artifacts as generated, with or without errors.
C11_ImportPassKeepsArtifacts ==
  [][(pc = "imports" /\ pc' = "zip") =>
       (fixedFiles' = fixedFiles /\ generatedFiles' = generatedFiles)]_vars

C11_Witness ==
  /\ pc = "zip"
  /\ Len(fixedFiles) > 0
  /\ Len(validationResult.errors) > 0

\* ------------------------------------------------ claims: the POST handler
\* the request names a domain: a non-empty string
CarriesDomain == request.kind = "json" /\ request.domain.t = "string" /\ ~DomainFalsy(request)

\* crawling throws, or the extraction of what was crawled throws
CrawlOrExtractionFails ==
  LET assets == crawlAndFetchAssets(request.domain, crawl)
  IN \/ assets.threw
     \/ parseWebsiteContent(assets.value[1].html, request.domain, assets.value[1]).threw

\* C12: when crawling or extraction fails for a request that carries a domain,
\* the handler answers 200 with success = true, accessible = false and the mock
\* ContentModel of that domain, never with an error status.
C12_FailureAnswersMock ==
  (pc = "responded" /\ CarriesDomain /\ CrawlOrExtractionFails) =>
     /\ response.status = 200
     /\ response.success
     /\ ~response.accessible
     /\ response.parsedContent = generateMockContent(request.domain).value

C12_Witness ==
  /\ pc = "responded" /\ CarriesDomain
  /\ crawl.python = "ok" /\ crawl.page[1].html = <<>>
  /\ response.status = 200 /\ ~response.accessible

\* C13: the mock ContentModel depends on the domain name only and is complete:
\* its title is the first label with its first character upper-cased ("acme.io"
\* gives "Acme"), its navItems are the fixed four entries, and it has exactly one
\* section, of type features, headed "Why Choose Us".
C13_MockFromDomainAlone ==
  (pc = "responded" /\ response.status = 200 /\ ~response.accessible) =>
     LET mock == response.parsedContent[1]
         label == request.domain.labels[1]
     IN /\ Len(mock.title) = Len(label)
        /\ \A i \in 1..Len(label) :
              mock.title[i] = IF i = 1 THEN ToUpperCase(label[1]) ELSE label[i]
        /\ request.domain.labels = Acme => mock.title = <<"A", "c", "m", "e">>
        /\ [i \in 1..Len(mock.navItems) |-> mock.navItems[i].text]
             = <<"Home", "About", "Services", "Contact">>
        /\ [i \in 1..Len(mock.navItems) |-> mock.navItems[i].href]
             = <<"/", "/about", "/services", "/contact">>
        /\ Len(mock.sections) = 1
        /\ mock.sections[1].type = "features"
        /\ mock.sections[1].heading = "Why Choose Us"
        /\ mock.hero # <<>> /\ mock.images = <<>> /\ mock.colors = DefaultColors
        /\ mock.crawledAssets = EmptyCrawl

C13_Witness ==
  /\ pc = "responded" /\ response.status = 200 /\ ~response.accessible
  /\ request.domain.labels = Acme
  /\ response.parsedContent[1].title = <<"A", "c", "m", "e">>
  /\ crawl.node = "throws"

\* --------------------------------------------------- claims: extraction
\* parseWebsiteContent returned and the handler answered with its result
Extracted == pc = "responded" /\ response.status = 200 /\ response.accessible

\* the markup and the ContentModel of an extraction that returned
InputMarkup == crawledAssets[1].html[1]
Content == response.parsedContent[1]

\* C14: parseWebsiteContent never raises, whatever the markup and the asset
\* bundle (empty string, tag soup, empty or partial bundle); where nothing
\* matches it returns title = domain, the default palette and empty collections.
C14_ExtractNeverRaises ==
  /\ pc # "mock"
  /\ (Extracted /\ InputMarkup.title = <<>> /\ InputMarkup.anchors = <<>>
        /\ InputMarkup.imgs = <<>> /\ InputMarkup.sections = <<>>
        /\ crawledAssets[1].cssFiles = << <<>> >> /\ crawledAssets[1].inlineStyles = << <<>> >>)
     => /\ Content.title = DomainText(request.domain.labels)
        /\ Content.colors = DefaultColors
        /\ Content.navItems = <<>> /\ Content.sections = <<>> /\ Content.images = <<>>

\* the anchors the acceptance test lets through, as nav entries, in document order
AcceptedAnchors ==
  LET ok == SelectSeq(InputMarkup.anchors, LAMBDA a : a.text.kind = "ok")
  IN [i \in 1..Len(ok) |->
        [text |-> ok[i].text,
         href |-> normalizeUrl(IF ok[i].href = <<>> THEN Url("relative", "", <<"#", 0>>)
                               ELSE ok[i].href[1], request.domain.labels),
         ariaLabel |-> ok[i].ariaLabel]]

\* positions of the entries that differ from every earlier entry
FirstOccurrences(items) ==
  SelectSeq([i \in 1..Len(items) |-> i],
            LAMBDA i : \A h \in 1..(i - 1) : items[h] # items[i])

\* C15: navItems has at most 10 entries, no two with the same (text, href,
\* ariaLabel), and is the first 10 distinct accepted anchors in document order.
C15_NavItemsFirstTenDistinct ==
  Extracted =>
    LET nav == Content.navItems
        firsts == FirstOccurrences(AcceptedAnchors)
    IN /\ Len(nav) <= NavLimit
       /\ \A i, j \in 1..Len(nav) : i # j => nav[i] # nav[j]
       /\ Len(nav) = (IF Len(firsts) < NavLimit THEN Len(firsts) ELSE NavLimit)
       /\ \A k \in 1..Len(nav) : nav[k] = AcceptedAnchors[firsts[k]]

C15_Witness ==
  /\ Extracted
  /\ Len(Content.navItems) = NavLimit
  /\ Len(FirstOccurrences(AcceptedAnchors)) > NavLimit
  /\ \E i \in 1..NavLimit : i \notin Range(FirstOccurrences(AcceptedAnchors))

\* the section candidate a returned section was built from
CandidateOf(section) == InputMarkup.sections[section.id[2] + 1]

\* C16: detectSectionType tries its rules in a fixed order (testimonials,
\* pricing, faq, contact, cards, features) and the first that applies wins; a
\* section headed "Pricing" with a card child and no keyword substring is "cards".
C16_SectionTypePriority ==
  Extracted =>
    \A k \in 1..Len(Content.sections) :
      LET type == Content.sections[k].type
          el == CandidateOf(Content.sections[k])
          testimonials == HtmlIncludes(el, "testimonial") \/ HtmlIncludes(el, "quote")
          pricing == HtmlIncludes(el, "pricing") \/ HtmlIncludes(el, "plan")
          faq == HtmlIncludes(el, "faq") \/ HtmlIncludes(el, "question")
          contact == HtmlIncludes(el, "contact") \/ HtmlIncludes(el, "form")
          none == ~testimonials /\ ~pricing /\ ~faq /\ ~contact
      IN /\ testimonials => type = "testimonials"
         /\ (~testimonials /\ pricing) => type = "pricing"
         /\ (~testimonials /\ ~pricing /\ faq) => type = "faq"
         /\ (~testimonials /\ ~pricing /\ ~faq /\ contact) => type = "contact"
         /\ (none /\ el.cards > 0) => type = "cards"
         /\ (none /\ el.cards = 0) => type = "features"
         /\ (el.heading = "Pricing" /\ el.words \subseteq {"Pricing", "welcome"} /\ el.cards > 0)
              => type = "cards"

C16_Witness ==
  /\ Extracted
  /\ \E k \in 1..Len(Content.sections) :
       /\ Content.sections[k].heading = <<"Pricing", 0>>
       /\ CandidateOf(Content.sections[k]).words = {"Pricing"}
       /\ CandidateOf(Content.sections[k]).cards = 1
       /\ Content.sections[k].type = "cards"

\* the concatenated stylesheet text: the files in order, then the inline styles
AllCss ==
  Flatten([i \in 1..Len(crawledAssets[1].cssFiles[1]) |-> crawledAssets[1].cssFiles[1][i].content])
  \o Flatten(crawledAssets[1].inlineStyles[1])

\* the spellings of a custom property's name, letter case ignored
ExactNames(key) ==
  CASE key = "primary" -> {"--primary", "--PRIMARY"}
    [] key = "secondary" -> {"--secondary", "--SECONDARY"}
    [] OTHER -> {"--accent", "--ACCENT"}

\* positions of the declarations of the custom property itself
DeclarationsOf(key) ==
  {i \in 1..Len(AllCss) : AllCss[i].k = "decl" /\ AllCss[i].name \in ExactNames(key)}

\* C17: stylesheet or inline-style text that declares "--accent: #112233;"
\* gives accent = "#112233" (likewise --primary and --secondary), letter case
\* ignored; of several declarations the first in the concatenated text wins.
C17_DeclaredColorWins ==
  Extracted =>
    \A key \in {"primary", "secondary", "accent"} :
      DeclarationsOf(key) # {} =>
        LET first == CHOOSE i \in DeclarationsOf(key) : \A j \in DeclarationsOf(key) : i <= j
        IN AllCss[first].value \in {"#112233", "#0a0b0c"}
             => Content.colors[key] = AllCss[first].value

\* C18: the palette always has its five keys; background is "#ffffff" and text
\* "#1f2937" whatever the stylesheets say; primary, secondary and accent keep
\* "#3b82f6", "#1e40af" and "#60a5fa" when nothing is matched for them.
C18_PaletteDefaults ==
  Extracted =>
    LET colors == Content.colors
    IN /\ DOMAIN colors = {"primary", "secondary", "accent", "background", "text"}
       /\ \A k \in DOMAIN colors : colors[k] # ""
       /\ colors.background = "#ffffff"
       /\ colors.text = "#1f2937"
       /\ ColorMatch(AllCss, "--primary") = <<>> => colors.primary = "#3b82f6"
       /\ ColorMatch(AllCss, "--secondary") = <<>> => colors.secondary = "#1e40af"
       /\ ColorMatch(AllCss, "--accent") = <<>> => colors.accent = "#60a5fa"

C18_Witness ==
  /\ Extracted
  /\ Len(AllCss) = 2
  /\ Content.colors.accent = "#112233"
  /\ Content.colors.primary = "#3b82f6"
  /\ Content.colors.text = "#1f2937"

\* the image entries (source and alt text) expected of a list of img elements
ExpectedImages(imgs) ==
  [i \in 1..(IF Len(imgs) < ImageLimit THEN Len(imgs) ELSE ImageLimit) |->
     [src |-> normalizeUrl(imgs[i].src, request.domain.labels),
      alt |-> IF imgs[i].alt = "" THEN "Image" ELSE imgs[i].alt]]

SourceAndAlt(images) == [i \in 1..Len(images) |-> [src |-> images[i].src, alt |-> images[i].alt]]

\* C19 as stated: images has at most 50 entries and is the first 50 img elements
\* that are not data URIs, in document order, with absolutized source and alt
\* text defaulting to "Image".
C19_FirstFiftyNonDataImgs ==
  Extracted =>
    /\ Len(Content.images) <= ImageLimit
    /\ SourceAndAlt(Content.images)
         = ExpectedImages(SelectSeq(InputMarkup.imgs, LAMBDA img : img.src.form # "data"))

\* C19, amended: images has at most 50 entries and is the first 50 img elements,
\* in document order, whose src is non-empty and does not contain "data:", each
\* with absolutized source and alt text defaulting to "Image".
C19_FirstFiftyUsableImgs ==
  Extracted =>
    /\ Len(Content.images) <= ImageLimit
    /\ \A i \in 1..Len(Content.images) : Content.images[i].src.form = "absolute"
    /\ SourceAndAlt(Content.images)
         = ExpectedImages(SelectSeq(InputMarkup.imgs,
                                    LAMBDA img : /\ img.src.form \notin {"empty", "data"}
                                                 /\ img.src.path[1] # "cb?next=data:"))

C19_Witness ==
  /\ Extracted
  /\ Len(Content.images) = ImageLimit
  /\ Len(InputMarkup.imgs) > ImageLimit + 1
  /\ \E i \in 1..ImageLimit : InputMarkup.imgs[i].src.form = "data"
  /\ Content.images[1].alt = "Image"

C21_SectionIdsGapless ==
  Extracted =>
    /\ \A k \in 1..Len(Content.sections) : Content.sections[k].id = SectionId(k - 1)
    /\ \A i, j \in 1..Len(Content.sections) :
         i # j => Content.sections[i].id # Content.sections[j].id

\* ---------------------------------------------------- claims: synthesis
\* every artifact of the run has been emitted
Emitted == pc \in {"validate", "imports"}

\* the text of the emitted artifact at a path
ArtifactAt(path) == (CHOOSE i \in 1..Len(generatedFiles) : generatedFiles[i].path = path)

TextAt(path) == generatedFiles[ArtifactAt(path)].content

AppPath == <<"src", "App", ".tsx">>

SectionsAlias == Alias(<<"components", "sections">>)

\* an import of, or a render of, a Section component in a text
NamesSection(text) ==
  \E i \in 1..Len(text) :
    \/ text[i].k = "import" /\ text[i].p = SectionsAlias
    \/ text[i].k = "lit" /\ text[i].s \in {SectionRender(n) : n \in 1..(MaxSections + 1)}

\* the trimmed bodyContent is longer than 100 characters
TrimmedBodyLong ==
  parsedContent.bodyContent # <<>> /\ parsedContent.bodyContent[1].chars > 100

\* C22: when the trimmed bodyContent is longer than 100 characters the entry
\* page embeds the body markup and names no Section component, and App renders
\* Home without Layout; otherwise the generic entry page is emitted inside
\* Layout. App and Home take the same branch.
C22_HighFidelityPrecedence ==
  Emitted =>
    LET home == TextAt(HomePath)
        app == TextAt(AppPath)
        embeds == \E i \in 1..Len(home) : home[i] = Lit("dangerouslySetInnerHTML")
        wrapped == \E i \in 1..Len(app) : app[i] = Lit("<Layout>")
    IN /\ TrimmedBodyLong => (embeds /\ ~NamesSection(home) /\ ~wrapped)
       /\ ~TrimmedBodyLong =>
            /\ ~embeds /\ wrapped
            /\ Len(parsedContent.sections) > 0 => NamesSection(home)
       /\ embeds <=> ~wrapped

C22_Witness ==
  /\ Emitted
  /\ parsedContent.bodyContent = <<Body(4, 101)>>
  /\ Len(parsedContent.sections) = 2
  /\ ~NamesSection(TextAt(HomePath))
  /\ TextAt(AppPath)[2] = Lit("<Home />")

SectionsDir == <<"src", "components", "sections">>

\* the emitted artifacts under src/components/sections other than the index
SectionArtifacts ==
  SelectSeq(generatedFiles,
            LAMBDA f : Len(f.path) = 5 /\ SubSeq(f.path, 1, 3) = SectionsDir /\ f.path[4] # "index")

C24_NoEmptyGrid ==
  Emitted =>
    \A i \in 1..Len(parsedContent.sections) :
      LET section == parsedContent.sections[i]
          text == TextAt(SectionsDir \o <<SectionName(i), ".tsx">>)
          grids == SelectSeq(text, LAMBDA t : t.k = "grid")
          placeholder == \E j \in 1..Len(text) : text[j] = Lit("No items to display")
          columns == IF section.columns = 0 THEN 3 ELSE section.columns
      IN /\ section.items = 0 => (placeholder /\ grids = <<>>)
         /\ section.items > 0 =>
              /\ ~placeholder
              /\ Len(grids) = 1
              /\ grids[1].n = (IF columns < section.items THEN columns ELSE section.items)

C24_Witness ==
  /\ Emitted
  /\ Len(parsedContent.sections) = 2
  /\ parsedContent.sections[1].items = 0
  /\ parsedContent.sections[2].items = 1 /\ parsedContent.sections[2].columns = 4

\* ------------------------------------------------ claims: advisory checks
\* the report holds a warning for the artifact at a path
WarnedAbout(path) ==
  \E i \in 1..Len(zodValidation.warnings) :
    zodValidation.warnings[i].file = path /\ zodValidation.warnings[i].severity = "warning"

\* C25: validating the synthesized artifacts yields a warning for Header.tsx
\* when the ContentModel has zero navItems, and a warning for Home.tsx when the
\* entry page shows the empty-content placeholder; these entries are warnings
\* and never make isValid false.
C25_AdvisoryWarnings ==
  pc = "imports" =>
    /\ Len(parsedContent.navItems) = 0 => WarnedAbout(HeaderPath)
    /\ (Len(parsedContent.sections) = 0 /\ ~TrimmedBodyLong) => WarnedAbout(HomePath)
    /\ \A i \in 1..Len(zodValidation.warnings) : zodValidation.warnings[i].severity = "warning"
    /\ zodValidation.isValid = (zodValidation.errors = <<>>)

\* ------------------------------------------------- claims: fetchAllFiles
\* C26: whatever subset of the fetches rejects, answers non-OK or fails while
\* its stylesheet is rewritten, the call resolves with exactly the assets that
\* were fetched with non-empty content, in the order of the input URLs; no
\* promise of the batch rejects.
C26_FailuresIsolated ==
  /\ \A i \in 1..Len(requests) : requests[i].status \in {"pending", "fulfilled"}
  /\ fetchedFiles # <<>> =>
       LET good == SelectSeq(requests, LAMBDA r : r.kind \in {"ok", "okCss"})
       IN /\ Len(fetchedFiles[1]) = Len(good)
          /\ \A k \in 1..Len(good) :
               /\ fetchedFiles[1][k].url = good[k].url
               /\ Len(fetchedFiles[1][k].content) > 0
          /\ \A j, k \in 1..Len(fetchedFiles[1]) :
               j < k => fetchedFiles[1][j].url < fetchedFiles[1][k].url

C26_Witness ==
  /\ fetchedFiles # <<>>
  /\ Len(requests) = 2
  /\ requests[1].kind = "rewriteThrows" /\ requests[1].order = 2
  /\ requests[2].kind = "ok" /\ requests[2].order = 1
  /\ Len(fetchedFiles[1]) = 1

\* --------------------------------------------------- claims: normalizeUrl
\* C27: normalizeUrl applies its cases in order: empty gives ""; a data URI or
\* an absolute http(s) URL is returned unchanged; '//...' gets the 'https:'
\* prefix; '/...' becomes https://<domain><url>; anything else becomes
\* https://<domain>/<url>. Normalizing a normalized URL returns it unchanged.
C27_NormalizeCasesAndIdempotent ==
  normalized # <<>> =>
    LET url == urlArgs[1].url
        host == DomainText(urlArgs[1].domain)
        out == normalized[1]
        passes == HasPrefix(url, DataPrefix) \/ HasPrefix(url, HttpPrefix)
                    \/ HasPrefix(url, HttpsPrefix)
        slashes == Len(url) >= 2 /\ url[1] = "/" /\ url[2] = "/"
        slash == Len(url) >= 1 /\ url[1] = "/"
    IN /\ url = <<>> => out = <<>>
       /\ passes => out = url
       /\ (~passes /\ slashes) => out = <<"h", "t", "t", "p", "s", ":">> \o url
       /\ (~passes /\ ~slashes /\ slash) => out = HttpsPrefix \o host \o url
       /\ (url # <<>> /\ ~passes /\ ~slash) => out = HttpsPrefix \o host \o <<"/">> \o url
       /\ FormOf(out) = normalizeUrl(Url(FormOf(url), "", <<>>), urlArgs[1].domain).form
       /\ Len(normalized) = 2 => normalized[2] = normalized[1]

C27_Witness ==
  /\ Len(normalized) = 2
  /\ urlArgs[1].url = <<"/", "/", "a">>
  /\ normalized[1] = HttpsPrefix \o <<"a">>
  /\ normalized[2] = normalized[1]

\* ------------------------------------------------------ claims: auto-fix
\* the texts autoFixGeneratedCode looks for
CataloguedCalls ==
  {"buttonVariants({ variant, size })", "buttonVariants({variant,size})",
   "cardVariants({ variant })", "cardVariants({variant})",
   "inputVariants({ size: inputSize })", "inputVariants({size: inputSize})",
   "inputVariants({ size })"}

\* the artifact's text holds none of the catalogued defect patterns
NoDefect(file) ==
  \A i \in 1..Len(file.content) :
    LET tok == file.content[i]
    IN /\ tok.k = "lit" => tok.s \notin CataloguedCalls
       /\ tok.k = "ring" => ~(Len(tok.m) > 0 /\ (tok.b \/ (tok.n = 500 /\ tok.m[1] = 20)))

\* C28: validateAndFixCodebase returns a list of the same length, paths and
\* order as its input; an artifact without a catalogued defect pattern comes
\* back with identical text; the input list and its artifacts are not modified.
C28_FixKeepsFrame ==
  [][(pc = "validate" /\ pc' = "imports") =>
       /\ generatedFiles' = generatedFiles
       /\ Len(fixedFiles') = Len(generatedFiles)
       /\ \A i \in 1..Len(generatedFiles) :
            /\ fixedFiles'[i].path = generatedFiles[i].path
            /\ NoDefect(generatedFiles[i]) => fixedFiles'[i] = generatedFiles[i]]_vars

C28_Witness ==
  /\ pc = "imports" /\ prevReport = <<>>
  /\ Len(generatedFiles) = 2
  /\ NoDefect(generatedFiles[1]) /\ fixedFiles[1] = generatedFiles[1]
  /\ ~NoDefect(generatedFiles[2]) /\ fixedFiles[2] # generatedFiles[2]

\* C29: applying validateAndFixCodebase to the artifacts it returned yields the
\* same artifacts and the same report as the first application.
C29_FixIdempotent ==
  (pc = "imports" /\ prevReport # <<>>) =>
    /\ fixedFiles = prevFiles
    /\ zodValidation = prevReport[1]

\* ------------------------------------------------------- claims: the page
\* the transition relation of the status
StatusRelation ==
  LET from == ui.status
      to == ui'.status
  IN /\ from # to =>
          \/ ~isProcessing /\ to = "fetching"
          \/ <<from, to>> \in {<<"fetching", "analyzing">>, <<"analyzing", "generating">>,
                               <<"generating", "zipping">>, <<"zipping", "complete">>}
          \/ isProcessing /\ to = "error"
          \/ /\ from \in {"complete", "error"} /\ to = "idle"
             /\ ui'.error = <<>> /\ ui'.generatedFiles = <<>> /\ ui'.wasAccessible = <<>>
     /\ (ui'.error = <<InvalidDomainMessage>> /\ ui.error # ui'.error)
          => (to = from /\ ui'.post = ui.post /\ ui'.at = ui.at)

\* C30: a run starts only from a status that is not a processing status, moves
\* through fetching, analyzing, generating, zipping to complete, enters error
\* only from a processing status and returns to idle only by reset from
\* complete or error, which clears error, file list and accessibility flag; an
\* invalid domain sets the error message without starting a fetch or changing
\* the status; every started run ends in complete or error.
C30_StatusRelation ==
  /\ [][StatusRelation]_ui
  /\ (ui.status = "fetching") ~> (ui.status \in {"complete", "error"})

====
